---- MODULE Spec2Model ----
(***************************************************************************)
(* Model of the tower firmware's serial core: the byte FIFO (FIFO.c), the  *)
(* UART driver and its interrupt handler (UART.c) and the 5-byte packet    *)
(* parser (packet.c).                                                      *)
(*                                                                         *)
(* Spec     : the receive path with every FIFO call taken as one step      *)
(*            (host byte -> UART2_D -> UART_ISR -> RxFIFO -> Packet_Get).  *)
(* SpecIrq  : the same path with the main loop's FIFO_Get split into its   *)
(*            statements, so that the interrupt handler can be placed      *)
(*            between any two of them unless interrupts are masked.        *)
(***************************************************************************)
EXTENDS Integers, Sequences, FiniteSets, TLC

----------------------------------------------------------------------------
(* Bounds of the model                                                     *)

\* Capacity of a FIFO.  FIFO.h, which sets the firmware's value, is not part
\* of the sources at hand; the model runs the same code on a small buffer.
FIFO_SIZE == 5

\* Number of bytes the host sends on the serial line during one run.
MaxRx == 6

\* The bytes the host sends.  0 is the XOR of any byte with itself, so valid
\* packets can be sent (1,1,129,129,0 for one); 1 XOR 129 is not among them,
\* so some windows can never be completed; 129 has bit 7 set.
RxBytes == {0, 1, 129}

\* What the stack cell of Packet_Get's local `data` may hold at entry.
StackBytes == {0, 129}

\* SpecIrq: bytes the host sends, and how many of them.
IrqRxBytes == {1, 129}
MaxIrqRx == 2

\* SpecIrq: the packets the main loop sends, and how many of them.
PutArgs == {<<132, 0, 1, 129>>}
MaxPut == 2

\* The packets the main loop sends in the transmit model.
TxArgs == {<<132, 0, 1, 129>>, <<1, 129, 0, 0>>}

\* Flash.h: the data sector is one phrase of eight bytes at 0x00080000.
FLASH_SIZE == 8
FLASH_DATA_START == 524288

\* Flash.c: the command bytes of the FTFE.
PROGRAM_PHRASE_COMMAND == 7
ERASE_FLASH_SECTOR_COMMAND == 9

\* The flash model: sizes given to Flash_AllocateVar and what the caller's
\* pointer holds before the call, offsets from FLASH_DATA_START of the
\* addresses given to Flash_Write8/16/32/64, and the data written.  Every byte written is 0x00 or 0xFF.  A 64-bit datum is
\* given as its two 32-bit halves <<Hi, Lo>>.
AllocSizes == {1, 2, 4, 8}
VariableInit == {0, FLASH_DATA_START + 2}
WriteOffsets == {-1, 0, 1, 2, 4, 7, 8, 256}
Data8 == {0, 255}
Data16 == {0, 255, 65280}
Data32 == {16711935}
Data64 == {<<255, 16776960>>}
MaxAlloc == 2

----------------------------------------------------------------------------
(* Bytes                                                                   *)

RECURSIVE BitXor(_, _, _)
BitXor(a, b, n) ==
  IF n = 0 THEN 0
  ELSE (((a % 2) + (b % 2)) % 2) + 2 * BitXor(a \div 2, b \div 2, n - 1)

\* The ^ operator of C on two uint8_t values.
Xor8(a, b) == BitXor(a, b, 8)

----------------------------------------------------------------------------
VARIABLES
  RxFIFO,             \* UART.c: static TFIFO RxFIFO
  TxFIFO,             \* UART.c: static TFIFO TxFIFO
  RIE, TIE,           \* UART2_C2: receive / transmit interrupt enable
  RDRF, TDRE,         \* UART2_S1: receive register full / transmit register empty
  UART2_D,            \* the receive side of the UART data register
  txWire,             \* bytes written to the transmit side of UART2_D
  Packet_Command, Packet_Parameter1, Packet_Parameter2, Packet_Parameter3,
  Packet_Checksum,
  ByteCount,          \* packet.c: static int ByteCount
  data,               \* Packet_Get's local `data` when UART_InChar returned
  dataKept,           \* a failed UART_InChar left `data` as it was at entry
  pc,                 \* SpecIrq: the statement the main loop executes next
  PRIMASK,            \* the core's interrupt mask bit: TRUE masks every interrupt
  SR_lock,            \* Cpu.h: nesting depth of EnterCritical (uint8_t)
  SR_reg,             \* Cpu.h: PRIMASK as saved by the outermost EnterCritical
  ppBytes,            \* SpecIrq: the bytes the running Packet_Put is to send
  ppIdx,              \* SpecIrq: how many of them UART_OutChar has been given
  status,             \* UART_OutChar's local `status`
  ppRet,              \* return value of the last Packet_Put
  putCalls,           \* SpecIrq: calls of Packet_Put so far
  lastOp,             \* the operation that produced this state
  putRet,             \* return value of the handler's last FIFO_Put
  inCharRet,          \* return value of the last UART_InChar
  pgRet,              \* return value of the last Packet_Get
  rxQueue,            \* bytes FIFO_Put accepted and FIFO_Get has not yet returned
  trace,              \* one record per byte Packet_Get consumed
  rxCount,            \* bytes the host has sent so far
  rxWire,             \* the bytes the host has sent, in order
  leds,               \* the LEDs that are lit
  CHIE, CHF,          \* FTM0_C0SC: channel interrupt enable, channel flag
  reported,           \* commands of the last flash call for which the
                      \* controller reported an error in FTFE_FSTAT
  Sector,             \* the bytes of the flash data sector, by offset
  CommonCommandObject,\* Flash.c: static TFCCOB CommonCommandObject
  FCCOB,              \* FTFE_FCCOB0 .. FTFE_FCCOBB
  variable,           \* the pointer given to the last Flash_AllocateVar call
  flashArg,           \* arguments of the last flash call
  flashRet,           \* return value of the last flash call
  launched,           \* commands the last flash call made the controller run
  tracked,            \* since the last erase: at most MaxAlloc slots allocated,
                      \* and every write went to the address of one of them
  slots,              \* while tracked: <<offset, size>> of the slots allocated
  overlap,            \* while tracked: a slot shares a byte with an earlier one
  careful,            \* while tracked: every Flash_AllocateVar call found the
                      \* slots allocated before it holding no 0xFF byte
  CCIF,               \* FTFE_FSTAT: command complete interrupt flag
  lpc,                \* position of the main loop inside a flash operation
  lcQueue,            \* command objects the running operation has yet to
                      \* launch; its head is LaunchCommand's argument
  completed,          \* commands the controller has completed in this call
  TowerNumber,        \* main.c: static volatile uint16union_t *TowerNumber
  TowerMode,          \* main.c: static volatile uint16union_t *TowerMode
  dsp                 \* what the last run of TowerInit or HandlePacket did

hwVars     == <<RIE, TIE, RDRF, TDRE, UART2_D, txWire>>
packetVars == <<Packet_Command, Packet_Parameter1, Packet_Parameter2,
                Packet_Parameter3, Packet_Checksum, ByteCount>>
irqVars    == <<pc, PRIMASK, SR_lock, SR_reg>>
putVars    == <<ppBytes, ppIdx, status, ppRet, putCalls>>
timerVars  == <<leds, CHIE, CHF>>
launchVars == <<CCIF, lpc, lcQueue, completed>>
appVars    == <<TowerNumber, TowerMode, dsp>>
flashVars  == <<Sector, CommonCommandObject, FCCOB, reported, variable, flashArg,
                flashRet, launched, tracked, slots, overlap, careful,
                launchVars, appVars>>
vars == <<RxFIFO, TxFIFO, hwVars, packetVars, data, dataKept, irqVars, putVars, lastOp,
          putRet, inCharRet, pgRet, rxQueue, trace, rxCount, rxWire, timerVars,
          flashVars>>

----------------------------------------------------------------------------
(* FIFO.c                                                                  *)

\* FIFO_Init: an empty buffer.  The buffers are static objects, so their
\* cells start as zero.
FIFO_Init ==
  [Buffer |-> [i \in 0 .. FIFO_SIZE - 1 |-> 0], Start |-> 0, End |-> 0, NbBytes |-> 0]

\* The unread bytes of a FIFO, oldest first.
Unread(F) ==
  [i \in 1 .. F.NbBytes |-> F.Buffer[(F.Start + i - 1) % FIFO_SIZE]]

FIFO_Put_NoFullTest(F, d) ==
  [fifo |-> [F EXCEPT !.Buffer[F.End] = d,
                      !.NbBytes = IF F.NbBytes < FIFO_SIZE THEN F.NbBytes + 1
                                  ELSE F.NbBytes,
                      !.End = (F.End + 1) % FIFO_SIZE],
   ret |-> TRUE]

FIFO_Put_NoWrap(F, d) ==
  IF F.NbBytes < FIFO_SIZE /\ F.End < FIFO_SIZE
  THEN [fifo |-> [F EXCEPT !.Buffer[F.End] = d,
                           !.NbBytes = F.NbBytes + 1,
                           !.End = F.End + 1],
        ret |-> TRUE]
  ELSE [fifo |-> F, ret |-> FALSE]

FIFO_Put_OverwriteWhenFull(F, d) ==
  IF F.NbBytes < FIFO_SIZE
  THEN [fifo |-> [F EXCEPT !.Buffer[F.End] = d,
                           !.NbBytes = F.NbBytes + 1,
                           !.End = (F.End + 1) % FIFO_SIZE],
        ret |-> TRUE]
  ELSE [fifo |-> [F EXCEPT !.Buffer[F.End] = d], ret |-> FALSE]

\* FIFO_Put taken as one step: the new FIFO and the return value.
FIFO_Put(F, d) ==
  IF F.NbBytes < FIFO_SIZE
  THEN [fifo |-> [F EXCEPT !.Buffer[F.End] = d,
                           !.NbBytes = F.NbBytes + 1,
                           !.End = (F.End + 1) % FIFO_SIZE],
        ret |-> TRUE]
  ELSE [fifo |-> F, ret |-> FALSE]

FIFO_Get_Lifo(F, d) ==
  IF F.NbBytes > 0
  THEN [fifo |-> [F EXCEPT !.NbBytes = F.NbBytes - 1,
                           !.End = (F.End + FIFO_SIZE - 1) % FIFO_SIZE],
        ret |-> TRUE,
        data |-> F.Buffer[(F.End + FIFO_SIZE - 1) % FIFO_SIZE]]
  ELSE [fifo |-> F, ret |-> FALSE, data |-> d]

FIFO_Get_NoEmptyTest(F, d) ==
  [fifo |-> [F EXCEPT !.NbBytes = IF F.NbBytes > 0 THEN F.NbBytes - 1 ELSE 0,
                      !.Start = (F.Start + 1) % FIFO_SIZE],
   ret |-> TRUE,
   data |-> F.Buffer[F.Start]]

FIFO_Get_NoAdvance(F, d) ==
  IF F.NbBytes > 0
  THEN [fifo |-> [F EXCEPT !.NbBytes = F.NbBytes - 1],
        ret |-> TRUE,
        data |-> F.Buffer[F.Start]]
  ELSE [fifo |-> F, ret |-> FALSE, data |-> d]

\* FIFO_Get taken as one step: the new FIFO, the return value and the byte
\* at *dataPtr afterwards (d is what *dataPtr held before).
FIFO_Get(F, d) ==
  IF F.NbBytes > 0
  THEN [fifo |-> [F EXCEPT !.NbBytes = F.NbBytes - 1,
                           !.Start = (F.Start + 1) % FIFO_SIZE],
        ret |-> TRUE,
        data |-> F.Buffer[F.Start]]
  ELSE [fifo |-> F, ret |-> FALSE, data |-> d]

----------------------------------------------------------------------------
(* UART.c                                                                  *)

UART_InChar_IgnoresResult(d) ==
  [FIFO_Get(RxFIFO, d) EXCEPT !.ret = TRUE]

\* UART_InChar: FIFO_Get on the receive FIFO.
UART_InChar(d) == FIFO_Get(RxFIFO, d)

\* The host puts a byte on the line; the UART latches it into UART2_D and
\* raises RDRF.  A byte is sent only once the handler has read the previous
\* one (no receiver overrun), and at most max bytes are sent in a run.
HostSendOf(bytes, max) ==
  /\ rxCount < max
  /\ ~RDRF
  /\ \E b \in bytes : UART2_D' = b /\ rxWire' = Append(rxWire, b)
  /\ RDRF' = TRUE
  /\ rxCount' = rxCount + 1
  /\ lastOp' = "HostSend"
  /\ UNCHANGED <<timerVars, flashVars,
                 RxFIFO, TxFIFO, RIE, TIE, TDRE, txWire, packetVars, data,
                 dataKept, irqVars, putVars, putRet, inCharRet, pgRet, rxQueue,
                 trace>>

HostSend == HostSendOf(RxBytes, MaxRx)

ISR_Body_Echo ==
  LET rx   == RIE /\ RDRF
      put  == FIFO_Put(RxFIFO, UART2_D)
      tx   == TIE /\ TDRE
      get  == FIFO_Get(TxFIFO, 0)
  IN  /\ RxFIFO' = IF rx THEN put.fifo ELSE RxFIFO
      /\ RDRF' = IF rx THEN FALSE ELSE RDRF
      /\ putRet' = IF rx THEN put.ret ELSE putRet
      /\ rxQueue' = IF rx /\ put.ret THEN Append(rxQueue, UART2_D) ELSE rxQueue
      /\ TxFIFO' = IF tx THEN get.fifo
                   ELSE IF rx THEN FIFO_Put(TxFIFO, UART2_D).fifo ELSE TxFIFO
      /\ txWire' = IF tx /\ get.ret THEN Append(txWire, get.data) ELSE txWire
      /\ TDRE' = IF tx /\ get.ret THEN FALSE ELSE TDRE
      /\ TIE' = IF tx /\ ~get.ret THEN FALSE ELSE TIE
      /\ lastOp' = "UART_ISR"
      /\ UNCHANGED <<rxWire, timerVars, flashVars,
                     RIE, UART2_D, packetVars, data, dataKept, irqVars,
                     putVars, inCharRet, pgRet, trace, rxCount>>

ISR_Body_DisablesAfterSend ==
  LET rx   == RIE /\ RDRF
      put  == FIFO_Put(RxFIFO, UART2_D)
      tx   == TIE /\ TDRE
      get  == FIFO_Get(TxFIFO, 0)
  IN  /\ RxFIFO' = IF rx THEN put.fifo ELSE RxFIFO
      /\ RDRF' = IF rx THEN FALSE ELSE RDRF
      /\ putRet' = IF rx THEN put.ret ELSE putRet
      /\ rxQueue' = IF rx /\ put.ret THEN Append(rxQueue, UART2_D) ELSE rxQueue
      /\ TxFIFO' = IF tx THEN get.fifo ELSE TxFIFO
      /\ txWire' = IF tx /\ get.ret THEN Append(txWire, get.data) ELSE txWire
      /\ TDRE' = IF tx /\ get.ret THEN FALSE ELSE TDRE
      /\ TIE' = IF tx THEN FALSE ELSE TIE
      /\ lastOp' = "UART_ISR"
      /\ UNCHANGED <<rxWire, timerVars, flashVars,
                     RIE, UART2_D, packetVars, data, dataKept, irqVars,
                     putVars, inCharRet, pgRet, trace, rxCount>>

\* The body of UART_ISR, from entry to return.  RDRF falls when the handler
\* reads UART2_D.  TDRE falls when the handler writes UART2_D; the status
\* register itself is read-only, so when the transmit FIFO is empty TDRE
\* stays set and only TIE is cleared.  The handler's local `data` is written
\* by FIFO_Get before it is read, so its entry value (0 here) is never used.
ISR_Body ==
  LET rx   == RIE /\ RDRF
      put  == FIFO_Put(RxFIFO, UART2_D)
      tx   == TIE /\ TDRE
      get  == FIFO_Get(TxFIFO, 0)
  IN  /\ RxFIFO' = IF rx THEN put.fifo ELSE RxFIFO
      /\ RDRF' = IF rx THEN FALSE ELSE RDRF
      /\ putRet' = IF rx THEN put.ret ELSE putRet
      /\ rxQueue' = IF rx /\ put.ret THEN Append(rxQueue, UART2_D) ELSE rxQueue
      /\ TxFIFO' = IF tx THEN get.fifo ELSE TxFIFO
      /\ txWire' = IF tx /\ get.ret THEN Append(txWire, get.data) ELSE txWire
      /\ TDRE' = IF tx /\ get.ret THEN FALSE ELSE TDRE
      /\ TIE' = IF tx /\ ~get.ret THEN FALSE ELSE TIE
      /\ lastOp' = "UART_ISR"
      /\ UNCHANGED <<rxWire, timerVars, flashVars,
                     RIE, UART2_D, packetVars, data, dataKept, irqVars,
                     putVars, inCharRet, pgRet, trace, rxCount>>

\* The interrupt request of UART2 is pending.
Pending == (RIE /\ RDRF) \/ (TIE /\ TDRE)

\* UART_ISR: the core enters the handler when the request is pending and
\* interrupts are not masked; the handler runs to its return before the main
\* loop executes another statement.
UART_ISR ==
  /\ Pending
  /\ ~PRIMASK
  /\ ISR_Body

----------------------------------------------------------------------------
(* packet.c                                                                *)

calculateChecksum_Drops3(command, parameter1, parameter2, parameter3) ==
  Xor8(Xor8(command, parameter1), parameter2)

calculateChecksum(command, parameter1, parameter2, parameter3) ==
  Xor8(Xor8(Xor8(command, parameter1), parameter2), parameter3)

\* The packet state as a record, for the operators below.
PacketState ==
  [Command |-> Packet_Command, Parameter1 |-> Packet_Parameter1,
   Parameter2 |-> Packet_Parameter2, Parameter3 |-> Packet_Parameter3,
   Checksum |-> Packet_Checksum, ByteCount |-> ByteCount]

ChecksumMismatch_Reset(p) ==
  [state |-> [p EXCEPT !.ByteCount = 0], ret |-> FALSE]

ChecksumMismatch_FallsThrough(p) ==
  [state |-> [p EXCEPT !.Command = p.Parameter1,
                       !.Parameter1 = p.Parameter2,
                       !.Parameter2 = p.Parameter3,
                       !.Parameter3 = p.Checksum,
                       !.ByteCount = p.ByteCount + 1],
   ret |-> FALSE]

ChecksumMismatch_DropsWindow(p) ==
  [state |-> [p EXCEPT !.Command = p.Checksum, !.ByteCount = 1],
   ret |-> FALSE]

ChecksumMismatch_NoShift(p) ==
  [state |-> p, ret |-> FALSE]

\* The else branch of case 4: shift the window left by one byte.
ChecksumMismatch(p) ==
  [state |-> [p EXCEPT !.Command = p.Parameter1,
                       !.Parameter1 = p.Parameter2,
                       !.Parameter2 = p.Parameter3,
                       !.Parameter3 = p.Checksum],
   ret |-> FALSE]

StoreField_SkipsCommand(p, d) ==
  [state |-> [(IF p.ByteCount = 0 THEN [p EXCEPT !.Parameter1 = d]
               ELSE IF p.ByteCount = 1 THEN [p EXCEPT !.Parameter1 = d]
               ELSE IF p.ByteCount = 2 THEN [p EXCEPT !.Parameter2 = d]
               ELSE [p EXCEPT !.Parameter3 = d])
              EXCEPT !.ByteCount = p.ByteCount + 1],
   ret |-> FALSE]

\* Cases 0 to 3 of the switch, then ByteCount++ and return false.
StoreField(p, d) ==
  [state |-> [(IF p.ByteCount = 0 THEN [p EXCEPT !.Command = d]
               ELSE IF p.ByteCount = 1 THEN [p EXCEPT !.Parameter1 = d]
               ELSE IF p.ByteCount = 2 THEN [p EXCEPT !.Parameter2 = d]
               ELSE [p EXCEPT !.Parameter3 = d])
              EXCEPT !.ByteCount = p.ByteCount + 1],
   ret |-> FALSE]

\* Case 4 of the switch: take the byte as the checksum and test it.
CheckPacket(p, d) ==
  LET q == [p EXCEPT !.Checksum = d]
  IN  IF calculateChecksum(q.Command, q.Parameter1, q.Parameter2, q.Parameter3)
           = q.Checksum
      THEN [state |-> [q EXCEPT !.ByteCount = 0], ret |-> TRUE]
      ELSE ChecksumMismatch(q)

\* The switch of Packet_Get on a byte d taken from the receive FIFO.  The
\* switch has no default: any other ByteCount only counts the byte.
ParseByte(p, d) ==
  IF p.ByteCount \in 0 .. 3 THEN StoreField(p, d)
  ELSE IF p.ByteCount = 4 THEN CheckPacket(p, d)
  ELSE [state |-> [p EXCEPT !.ByteCount = p.ByteCount + 1], ret |-> FALSE]

\* Packet_Get after UART_InChar has returned r, on the packet state p.
PacketGetResult(p, r) ==
  IF ~r.ret THEN [state |-> p, ret |-> FALSE]
  ELSE ParseByte(p, r.data)

\* The assignments of a Packet_Get whose UART_InChar returned r.
PacketGetEffect(r, kept) ==
  LET res == PacketGetResult(PacketState, r)
  IN  /\ RxFIFO' = r.fifo
      /\ inCharRet' = r.ret
      /\ data' = r.data
      /\ dataKept' = kept
      /\ rxQueue' = IF r.ret /\ rxQueue # <<>> THEN Tail(rxQueue) ELSE rxQueue
      /\ Packet_Command' = res.state.Command
      /\ Packet_Parameter1' = res.state.Parameter1
      /\ Packet_Parameter2' = res.state.Parameter2
      /\ Packet_Parameter3' = res.state.Parameter3
      /\ Packet_Checksum' = res.state.Checksum
      /\ ByteCount' = res.state.ByteCount
      /\ pgRet' = res.ret
      /\ trace' = IF r.ret
                  THEN Append(trace, [byte |-> r.data, ret |-> res.ret,
                                      pos |-> ByteCount])
                  ELSE trace
      /\ lastOp' = "Packet_Get"

\* Packet_Get, called from the main loop (HandlePacket), as one step.
Packet_Get ==
  \E g \in StackBytes :
    LET r == UART_InChar(g)
    IN  /\ PacketGetEffect(r, r.ret \/ r.data = g)
        /\ UNCHANGED <<rxWire, timerVars, flashVars,
                       TxFIFO, hwVars, irqVars, putVars, putRet, rxCount>>

----------------------------------------------------------------------------
(* Spec: the receive path, every call one step                             *)

\* After UART_Init and the static initialisers of packet.c, the Flash sector
\* holding sector; everything but the flag of the Flash controller.
InitOn(sector) ==
  /\ RxFIFO = FIFO_Init
  /\ TxFIFO = FIFO_Init
  /\ RIE = TRUE
  /\ TIE = FALSE
  /\ RDRF = FALSE
  /\ TDRE = TRUE
  /\ UART2_D = 0
  /\ txWire = <<>>
  /\ Packet_Command = 0
  /\ Packet_Parameter1 = 0
  /\ Packet_Parameter2 = 0
  /\ Packet_Parameter3 = 0
  /\ Packet_Checksum = 0
  /\ ByteCount = 0
  /\ data = 0
  /\ dataKept = TRUE
  /\ pc = "idle"
  /\ PRIMASK = FALSE
  /\ SR_lock = 0
  /\ SR_reg = FALSE
  /\ ppBytes = <<>>
  /\ ppIdx = 0
  /\ status = FALSE
  /\ ppRet = FALSE
  /\ putCalls = 0
  /\ lastOp = "init"
  /\ putRet = FALSE
  /\ inCharRet = FALSE
  /\ pgRet = FALSE
  /\ rxQueue = <<>>
  /\ trace = <<>>
  /\ rxCount = 0
  /\ rxWire = <<>>
  /\ leds = {"ORANGE"}
  /\ CHIE = FALSE
  /\ CHF = FALSE
  /\ reported = {}
  /\ Sector = sector
  /\ CommonCommandObject =
       [command |-> 0, data |-> [i \in 0 .. FLASH_SIZE - 1 |-> 0]]
  /\ FCCOB = [i \in 0 .. 11 |-> 0]
  /\ variable = 0
  /\ flashArg = <<0, 0>>
  /\ flashRet = FALSE
  /\ launched = <<>>
  /\ tracked = TRUE
  /\ slots = {}
  /\ overlap = FALSE
  /\ careful = TRUE
  /\ lpc = "idle"
  /\ lcQueue = <<>>
  /\ completed = <<>>
  /\ TowerNumber = FLASH_DATA_START
  /\ TowerMode = FLASH_DATA_START + 2
  /\ dsp = [count |-> 0, handler |-> "reset", success |-> FALSE,
            ack |-> FALSE, afterHandler |-> FIFO_Init,
            sectorBefore |-> [i \in 0 .. FLASH_SIZE - 1 |-> 255]]

\* The program starts its main loop with the Flash controller idle.
\* The program starting on an erased sector.
InitProgram == InitOn([i \in 0 .. FLASH_SIZE - 1 |-> 255])

Init == InitProgram /\ CCIF = TRUE

Next == HostSend \/ UART_ISR \/ Packet_Get

Spec == Init /\ [][Next]_vars

\* The receive path fed long runs of two byte values, so that a packet can
\* begin at every position of the parser.
MaxParse == 9
ParseBytes == {0, 1}

HostSendParse == HostSendOf(ParseBytes, MaxParse)

NextParse == HostSendParse \/ UART_ISR \/ Packet_Get

SpecParse == Init /\ [][NextParse]_vars

----------------------------------------------------------------------------
(* SpecIrq: the main loop statement by statement                           *)

\* EnterCritical (Cpu.h): mask interrupts; the outermost call saves the mask.
EnterCritical ==
  /\ PRIMASK' = TRUE
  /\ SR_lock' = (SR_lock + 1) % 256
  /\ SR_reg' = IF (SR_lock + 1) % 256 = 1 THEN PRIMASK ELSE SR_reg

\* ExitCritical (Cpu.h): the outermost call restores the saved mask.
ExitCritical ==
  /\ SR_lock' = (SR_lock + 255) % 256
  /\ PRIMASK' = IF (SR_lock + 255) % 256 = 0 THEN SR_reg ELSE PRIMASK
  /\ UNCHANGED SR_reg

\* What no statement of FIFO_Get on RxFIFO touches.
getFrame == <<rxWire, timerVars, flashVars, TxFIFO, hwVars, packetVars, dataKept, putVars, putRet, pgRet,
              rxQueue, trace, rxCount>>

\* What no statement of FIFO_Put on TxFIFO touches.
putFrame == <<rxWire, timerVars, flashVars, RxFIFO, RIE, RDRF, TDRE, UART2_D, txWire, packetVars, data,
              dataKept, ppBytes, ppIdx, ppRet, putCalls, putRet, inCharRet,
              pgRet, rxQueue, trace, rxCount>>

\* HandlePacket calls Packet_Get, which calls UART_InChar(&data).
PG_Call ==
  /\ pc = "idle"
  /\ data' \in StackBytes
  /\ pc' = "get_enter"
  /\ lastOp' = "main"
  /\ UNCHANGED <<RxFIFO, inCharRet, PRIMASK, SR_lock, SR_reg, getFrame>>

GetEnter_NoMask ==
  /\ pc = "get_enter"
  /\ pc' = "get_test"
  /\ lastOp' = "main"
  /\ UNCHANGED <<RxFIFO, data, inCharRet, PRIMASK, SR_lock, SR_reg, getFrame>>

\* FIFO_Get: EnterCritical().
GetEnter ==
  /\ pc = "get_enter"
  /\ EnterCritical
  /\ pc' = "get_test"
  /\ lastOp' = "main"
  /\ UNCHANGED <<RxFIFO, data, inCharRet, getFrame>>

\* FIFO_Get: if (FIFO->NbBytes > 0).
GetTest ==
  /\ pc = "get_test"
  /\ pc' = IF RxFIFO.NbBytes > 0 THEN "get_read" ELSE "get_exit_false"
  /\ lastOp' = "main"
  /\ UNCHANGED <<RxFIFO, data, inCharRet, PRIMASK, SR_lock, SR_reg, getFrame>>

\* FIFO_Get: *dataPtr = FIFO->Buffer[FIFO->Start].
GetRead ==
  /\ pc = "get_read"
  /\ data' = RxFIFO.Buffer[RxFIFO.Start]
  /\ pc' = "get_dec"
  /\ lastOp' = "main"
  /\ UNCHANGED <<RxFIFO, inCharRet, PRIMASK, SR_lock, SR_reg, getFrame>>

\* FIFO_Get: FIFO->NbBytes--.
GetDec ==
  /\ pc = "get_dec"
  /\ RxFIFO' = [RxFIFO EXCEPT !.NbBytes = RxFIFO.NbBytes - 1]
  /\ pc' = "get_adv"
  /\ lastOp' = "main"
  /\ UNCHANGED <<data, inCharRet, PRIMASK, SR_lock, SR_reg, getFrame>>

\* FIFO_Get: FIFO->Start = (FIFO->Start + 1) % FIFO_SIZE.
GetAdvance ==
  /\ pc = "get_adv"
  /\ RxFIFO' = [RxFIFO EXCEPT !.Start = (RxFIFO.Start + 1) % FIFO_SIZE]
  /\ pc' = "get_exit_true"
  /\ lastOp' = "main"
  /\ UNCHANGED <<data, inCharRet, PRIMASK, SR_lock, SR_reg, getFrame>>

\* FIFO_Get: ExitCritical(); return true.
GetExitTrue ==
  /\ pc = "get_exit_true"
  /\ ExitCritical
  /\ inCharRet' = TRUE
  /\ pc' = "pg_parse"
  /\ lastOp' = "main"
  /\ UNCHANGED <<RxFIFO, data, getFrame>>

\* FIFO_Get: ExitCritical(); return false.
GetExitFalse ==
  /\ pc = "get_exit_false"
  /\ ExitCritical
  /\ inCharRet' = FALSE
  /\ pc' = "pg_parse"
  /\ lastOp' = "main"
  /\ UNCHANGED <<RxFIFO, data, getFrame>>

\* Packet_Get from the return of UART_InChar to its own return.  The failed
\* path of FIFO_Get holds no statement that writes *dataPtr.
PG_Parse ==
  /\ pc = "pg_parse"
  /\ PacketGetEffect([fifo |-> RxFIFO, ret |-> inCharRet, data |-> data], TRUE)
  /\ pc' = "idle"
  /\ UNCHANGED <<rxWire, timerVars, flashVars,
                 TxFIFO, hwVars, PRIMASK, SR_lock, SR_reg, putVars, putRet,
                 rxCount>>

\* The main loop calls Packet_Put(a): EnterCritical().
PP_Call ==
  /\ pc = "idle"
  /\ putCalls < MaxPut
  /\ \E a \in PutArgs :
       ppBytes' = <<a[1], a[2], a[3], a[4],
                    calculateChecksum(a[1], a[2], a[3], a[4])>>
  /\ ppIdx' = 0
  /\ putCalls' = putCalls + 1
  /\ EnterCritical
  /\ pc' = "pp_next"
  /\ lastOp' = "main"
  /\ UNCHANGED <<rxWire, timerVars, flashVars,
                 RxFIFO, TxFIFO, hwVars, packetVars, data, dataKept, status,
                 ppRet, putRet, inCharRet, pgRet, rxQueue, trace, rxCount>>

\* Packet_Put: the && chain calls UART_OutChar on the next byte unless a
\* call has returned false or all five bytes have been given.
PP_Next ==
  /\ pc = "pp_next"
  /\ IF ppIdx < 5 /\ (ppIdx = 0 \/ status)
     THEN pc' = "put_enter" /\ ppIdx' = ppIdx + 1
     ELSE pc' = "pp_exit" /\ ppIdx' = ppIdx
  /\ lastOp' = "main"
  /\ UNCHANGED <<rxWire, timerVars, flashVars,
                 RxFIFO, TxFIFO, hwVars, packetVars, data, dataKept, PRIMASK,
                 SR_lock, SR_reg, ppBytes, status, ppRet, putCalls, putRet,
                 inCharRet, pgRet, rxQueue, trace, rxCount>>

\* FIFO_Put: EnterCritical().
PutEnter ==
  /\ pc = "put_enter"
  /\ EnterCritical
  /\ pc' = "put_test"
  /\ lastOp' = "main"
  /\ UNCHANGED <<TxFIFO, TIE, status, putFrame>>

\* FIFO_Put: if (FIFO->NbBytes < FIFO_SIZE).
PutTest ==
  /\ pc = "put_test"
  /\ pc' = IF TxFIFO.NbBytes < FIFO_SIZE THEN "put_store" ELSE "put_exit_false"
  /\ lastOp' = "main"
  /\ UNCHANGED <<TxFIFO, TIE, status, PRIMASK, SR_lock, SR_reg, putFrame>>

\* FIFO_Put: FIFO->Buffer[FIFO->End] = data.
PutStore ==
  /\ pc = "put_store"
  /\ TxFIFO' = [TxFIFO EXCEPT !.Buffer[TxFIFO.End] = ppBytes[ppIdx]]
  /\ pc' = "put_inc"
  /\ lastOp' = "main"
  /\ UNCHANGED <<TIE, status, PRIMASK, SR_lock, SR_reg, putFrame>>

\* FIFO_Put: FIFO->NbBytes++.
PutInc ==
  /\ pc = "put_inc"
  /\ TxFIFO' = [TxFIFO EXCEPT !.NbBytes = TxFIFO.NbBytes + 1]
  /\ pc' = "put_adv"
  /\ lastOp' = "main"
  /\ UNCHANGED <<TIE, status, PRIMASK, SR_lock, SR_reg, putFrame>>

\* FIFO_Put: FIFO->End = (FIFO->End + 1) % FIFO_SIZE.
PutAdvance ==
  /\ pc = "put_adv"
  /\ TxFIFO' = [TxFIFO EXCEPT !.End = (TxFIFO.End + 1) % FIFO_SIZE]
  /\ pc' = "put_exit_true"
  /\ lastOp' = "main"
  /\ UNCHANGED <<TIE, status, PRIMASK, SR_lock, SR_reg, putFrame>>

\* FIFO_Put: ExitCritical(); return true.
PutExitTrue ==
  /\ pc = "put_exit_true"
  /\ ExitCritical
  /\ status' = TRUE
  /\ pc' = "oc_enable"
  /\ lastOp' = "main"
  /\ UNCHANGED <<TxFIFO, TIE, putFrame>>

\* FIFO_Put: ExitCritical(); return false.  UART_OutChar returns it.
PutExitFalse ==
  /\ pc = "put_exit_false"
  /\ ExitCritical
  /\ status' = FALSE
  /\ pc' = "pp_next"
  /\ lastOp' = "main"
  /\ UNCHANGED <<TxFIFO, TIE, putFrame>>

\* UART_OutChar: status is true, so enable the transmit interrupt; return.
OutCharEnable ==
  /\ pc = "oc_enable"
  /\ TIE' = TRUE
  /\ pc' = "pp_next"
  /\ lastOp' = "main"
  /\ UNCHANGED <<TxFIFO, status, PRIMASK, SR_lock, SR_reg, putFrame>>

\* Packet_Put: ExitCritical(); return success.
PP_Exit ==
  /\ pc = "pp_exit"
  /\ ExitCritical
  /\ ppRet' = (ppIdx = 5 /\ status)
  /\ pc' = "idle"
  /\ lastOp' = "Packet_Put"
  /\ UNCHANGED <<rxWire, timerVars, flashVars,
                 RxFIFO, TxFIFO, hwVars, packetVars, data, dataKept, ppBytes,
                 ppIdx, status, putCalls, putRet, inCharRet, pgRet, rxQueue,
                 trace, rxCount>>

\* The UART has shifted the byte out of its transmit register: TDRE rises.
TxShifted ==
  /\ ~TDRE
  /\ TDRE' = TRUE
  /\ lastOp' = "TxShifted"
  /\ UNCHANGED <<rxWire, timerVars, flashVars,
                 RxFIFO, TxFIFO, RIE, TIE, RDRF, UART2_D, txWire, packetVars,
                 data, dataKept, irqVars, putVars, putRet, inCharRet, pgRet,
                 rxQueue, trace, rxCount>>

HostSendIrq == HostSendOf(IrqRxBytes, MaxIrqRx)

NextIrq ==
  \/ HostSendIrq \/ TxShifted \/ UART_ISR
  \/ PG_Call \/ GetEnter \/ GetTest \/ GetRead \/ GetDec \/ GetAdvance
  \/ GetExitTrue \/ GetExitFalse \/ PG_Parse
  \/ PP_Call \/ PP_Next \/ PutEnter \/ PutTest \/ PutStore \/ PutInc
  \/ PutAdvance \/ PutExitTrue \/ PutExitFalse \/ OutCharEnable \/ PP_Exit

SpecIrq == Init /\ [][NextIrq]_vars

----------------------------------------------------------------------------
(* Packet_Put as one operation (packet.c, UART.c)                          *)

UART_OutChar_AlwaysTrue(F, tie, d) ==
  LET put == FIFO_Put(F, d)
  IN  [fifo |-> put.fifo, tie |-> (tie \/ put.ret), ret |-> TRUE]

\* UART_OutChar: FIFO_Put on the transmit FIFO; on success the transmit
\* interrupt is enabled.
UART_OutChar(F, tie, d) ==
  LET put == FIFO_Put(F, d)
  IN  [fifo |-> put.fifo, tie |-> (tie \/ put.ret), ret |-> put.ret]

PacketBytes_ChecksumFirst(a) ==
  <<calculateChecksum(a[1], a[2], a[3], a[4]), a[1], a[2], a[3], a[4]>>

\* The arguments of the five UART_OutChar calls of Packet_Put, in order.
PacketBytes(a) ==
  <<a[1], a[2], a[3], a[4], calculateChecksum(a[1], a[2], a[3], a[4])>>

\* The && chain of Packet_Put: UART_OutChar on each byte in turn, stopping
\* at the first call that returns false.
RECURSIVE OutChars(_, _, _, _)
OutChars(F, tie, bytes, calls) ==
  IF bytes = <<>>
  THEN [fifo |-> F, tie |-> tie, ret |-> TRUE, calls |-> calls]
  ELSE LET r == UART_OutChar(F, tie, Head(bytes))
       IN  IF r.ret
           THEN OutChars(r.fifo, r.tie, Tail(bytes), calls + 1)
           ELSE [fifo |-> r.fifo, tie |-> r.tie, ret |-> FALSE,
                 calls |-> calls + 1]

\* Packet_Put, called by the main loop with interrupts enabled: the whole
\* chain runs between EnterCritical and ExitCritical, which leave the
\* interrupt mask as they found it.
Packet_Put ==
  /\ pc = "idle"
  /\ putCalls < MaxPut
  /\ \E a \in TxArgs :
       LET r == OutChars(TxFIFO, TIE, PacketBytes(a), 0)
       IN  /\ ppBytes' = PacketBytes(a)
           /\ TxFIFO' = r.fifo
           /\ TIE' = r.tie
           /\ ppIdx' = r.calls
           /\ status' = r.ret
           /\ ppRet' = r.ret
  /\ putCalls' = putCalls + 1
  /\ lastOp' = "Packet_Put"
  /\ UNCHANGED <<rxWire, timerVars, flashVars,
                 RxFIFO, RIE, RDRF, TDRE, UART2_D, txWire, packetVars, data,
                 dataKept, irqVars, putRet, inCharRet, pgRet, rxQueue, trace,
                 rxCount>>

NextTx == Packet_Put \/ UART_ISR \/ TxShifted

SpecTx == Init /\ [][NextTx]_vars

\* SpecTx with the hardware making progress: the transmitter finishes
\* shifting each byte out, and a pending request of UART2 is served, the
\* main loop never leaving interrupts masked.
SpecTxFair == SpecTx /\ WF_vars(UART_ISR) /\ WF_vars(TxShifted)

----------------------------------------------------------------------------
(* Flash.c                                                                 *)

RECURSIVE BitAnd(_, _, _)
BitAnd(a, b, n) ==
  IF n = 0 THEN 0
  ELSE ((a % 2) * (b % 2)) + 2 * BitAnd(a \div 2, b \div 2, n - 1)

\* Programming a flash byte can only clear bits.
And8(a, b) == IF a = 255 THEN b ELSE IF b = 255 THEN a ELSE BitAnd(a, b, 8)

\* _FB(FLASH_DATA_START + i) for a byte of the sector.
FB(sector, i) == sector[i]

\* uint16union_t, uint32union_t on the little-endian core: .s.Lo is the low
\* half.
Lo8(d) == d % 256
Hi8(d) == (d \div 256) % 256
Lo16(d) == d % 65536
Hi16(d) == (d \div 65536) % 65536

\* SetupCommand.
SetupCommand(cco, command) == [cco EXCEPT !.command = command]

ProgramPhrase_Ascending(fccob, cco) ==
  [fccob EXCEPT ![4] = cco.data[0], ![5] = cco.data[1],
                ![6] = cco.data[2], ![7] = cco.data[3],
                ![8] = cco.data[4], ![9] = cco.data[5],
                ![10] = cco.data[6], ![11] = cco.data[7]]

\* ProgramPhrase: the eight mirror bytes into FCCOB4 .. FCCOBB.
ProgramPhrase(fccob, cco) ==
  [fccob EXCEPT ![4] = cco.data[3], ![5] = cco.data[2],
                ![6] = cco.data[1], ![7] = cco.data[0],
                ![8] = cco.data[7], ![9] = cco.data[6],
                ![10] = cco.data[5], ![11] = cco.data[4]]

\* The controller runs the command in FCCOB0 on the sector.  Erase sets
\* every bit; program phrase clears the bits that are 0 in the phrase, whose
\* byte at offset 0 is FCCOB7 and whose byte at offset 4 is FCCOBB (the
\* FCCOB group is big endian).
Controller(sector, fccob) ==
  IF fccob[0] = ERASE_FLASH_SECTOR_COMMAND
  THEN [i \in 0 .. FLASH_SIZE - 1 |-> 255]
  ELSE [i \in 0 .. FLASH_SIZE - 1 |->
          And8(sector[i], fccob[IF i < 4 THEN 7 - i ELSE 15 - i])]

\* LaunchCommand on the flash hw = [sector, fccob, launched, faults,
\* reported].  A command in hw.faults is one the controller fails: it leaves
\* the sector as it is and reports the error in FTFE_FSTAT, which
\* LaunchCommand does not read.
LaunchCommand(hw, cco) ==
  LET f == [hw.fccob EXCEPT ![0] = cco.command, ![1] = 8, ![2] = 0, ![3] = 0]
      g == IF cco.command = PROGRAM_PHRASE_COMMAND
           THEN ProgramPhrase(f, cco) ELSE f
      failed == cco.command \in hw.faults
  IN  IF cco.command \in {PROGRAM_PHRASE_COMMAND, ERASE_FLASH_SECTOR_COMMAND}
      THEN [sector |-> IF failed THEN hw.sector ELSE Controller(hw.sector, g),
            fccob |-> g,
            launched |-> Append(hw.launched, cco.command),
            faults |-> hw.faults,
            reported |-> IF failed THEN hw.reported \cup {cco.command}
                         ELSE hw.reported,
            ret |-> TRUE]
      ELSE [sector |-> hw.sector, fccob |-> f, launched |-> hw.launched,
            faults |-> hw.faults, reported |-> hw.reported, ret |-> FALSE]

\* FlashBackup: the sector into the mirror.
FlashBackup(cco, sector) ==
  [cco EXCEPT !.data = [i \in 0 .. FLASH_SIZE - 1 |-> FB(sector, i)]]

Flash_Erase_NoLaunch(hw) ==
  [sector |-> hw.sector, fccob |-> hw.fccob, launched |-> hw.launched,
   faults |-> hw.faults, reported |-> hw.reported, ret |-> TRUE]

\* Flash_Erase: a local command object set to erase, launched.  Its data is
\* never read.
Flash_Erase(hw) ==
  LaunchCommand(hw, [command |-> ERASE_FLASH_SECTOR_COMMAND])

\* uint8_t index = (uint32_t) address - FLASH_DATA_START.
Index(address) == (address - FLASH_DATA_START) % 256

WriteMirror_BackupAfterErase(hw, cco, index, bytes) ==
  LET e  == Flash_Erase(hw)
      c1 == FlashBackup(SetupCommand(cco, PROGRAM_PHRASE_COMMAND), e.sector)
      c2 == [c1 EXCEPT !.data =
               [i \in 0 .. FLASH_SIZE - 1 |->
                  IF i \in index .. index + Len(bytes) - 1
                  THEN bytes[i - index + 1] ELSE c1.data[i]]]
      l  == LaunchCommand(e, c2)
  IN  [sector |-> l.sector, fccob |-> l.fccob, launched |-> l.launched,
       reported |-> l.reported, cco |-> c2, ret |-> (e.ret /\ l.ret)]

\* The common tail of Flash_Write8/16/32/64 once the index is accepted:
\* SetupCommand, FlashBackup, the bytes into the mirror at index, Flash_Erase,
\* LaunchCommand; status is the & of the three results.
WriteMirror(hw, cco, index, bytes) ==
  LET c1 == FlashBackup(SetupCommand(cco, PROGRAM_PHRASE_COMMAND), hw.sector)
      c2 == [c1 EXCEPT !.data =
               [i \in 0 .. FLASH_SIZE - 1 |->
                  IF i \in index .. index + Len(bytes) - 1
                  THEN bytes[i - index + 1] ELSE c1.data[i]]]
      e  == Flash_Erase(hw)
      l  == LaunchCommand(e, c2)
  IN  [sector |-> l.sector, fccob |-> l.fccob, launched |-> l.launched,
       reported |-> l.reported, cco |-> c2, ret |-> (e.ret /\ l.ret)]

\* A write refused by the test of the index.
WriteRefused(hw, cco) ==
  [sector |-> hw.sector, fccob |-> hw.fccob, launched |-> hw.launched,
   reported |-> hw.reported, cco |-> cco, ret |-> FALSE]

Bytes16(d) == <<Lo8(d), Hi8(d)>>
Bytes32(d) == Bytes16(Lo16(d)) \o Bytes16(Hi16(d))
Bytes64(d) == Bytes32(d[2]) \o Bytes32(d[1])

Flash_Write8(hw, cco, address, d) ==
  IF Index(address) < 0 \/ Index(address) >= FLASH_SIZE
  THEN WriteRefused(hw, cco)
  ELSE WriteMirror(hw, cco, Index(address), <<d>>)

Flash_Write16_NoAlignTest(hw, cco, address, d) ==
  IF Index(address) < 0 \/ Index(address) >= FLASH_SIZE - 1
  THEN WriteRefused(hw, cco)
  ELSE WriteMirror(hw, cco, Index(address), Bytes16(d))

Flash_Write16(hw, cco, address, d) ==
  IF Index(address) < 0 \/ Index(address) >= FLASH_SIZE
       \/ Index(address) % 2 # 0
  THEN WriteRefused(hw, cco)
  ELSE WriteMirror(hw, cco, Index(address), Bytes16(d))

Flash_Write32(hw, cco, address, d) ==
  IF Index(address) < 0 \/ Index(address) >= FLASH_SIZE
       \/ Index(address) % 4 # 0
  THEN WriteRefused(hw, cco)
  ELSE WriteMirror(hw, cco, Index(address), Bytes32(d))

Flash_Write64_NoAlignTest(hw, cco, address, d) ==
  IF Index(address) < 0 \/ Index(address) >= FLASH_SIZE
  THEN WriteRefused(hw, cco)
  ELSE WriteMirror(hw, cco, Index(address), Bytes64(d))

Flash_Write64(hw, cco, address, d) ==
  IF Index(address) < 0 \/ Index(address) >= FLASH_SIZE
       \/ Index(address) % 8 # 0
  THEN WriteRefused(hw, cco)
  ELSE WriteMirror(hw, cco, Index(address), Bytes64(d))


\* The scan of Flash_AllocateVar from index i on.  addressFound starts true
\* and is only ever cleared; addressIndex is a uint8_t that starts at -1.
RECURSIVE AllocScan(_, _, _, _)
AllocScan(sector, size, i, addressFound) ==
  IF i >= FLASH_SIZE
  THEN [addressFound |-> addressFound, addressIndex |-> 255]
  ELSE IF FB(sector, i) = 255
       THEN LET broken == \E j \in 1 .. size - 1 :
                            i + j >= FLASH_SIZE \/ FB(sector, i + j) # 255
                found  == addressFound /\ ~broken
            IN  IF found
                THEN [addressFound |-> TRUE, addressIndex |-> i]
                ELSE AllocScan(sector, size, i + size, found)
       ELSE AllocScan(sector, size, i + size, addressFound)

Flash_AllocateVar_SkipsFirst(sector, size) ==
  IF size \in {1, 2, 4}
  THEN LET r == AllocScan(sector, size, size, TRUE)
       IN  [ret |-> r.addressFound,
            address |-> FLASH_DATA_START + r.addressIndex]
  ELSE [ret |-> FALSE, address |-> 0]

Flash_AllocateVar_AnySize(sector, size) ==
  LET r == AllocScan(sector, size, 0, TRUE)
  IN  [ret |-> r.addressFound, address |-> FLASH_DATA_START + r.addressIndex]

Flash_AllocateVar_NoScan(sector, size) ==
  [ret |-> size \in {1, 2, 4}, address |-> FLASH_DATA_START]

\* Flash_AllocateVar: ret is the return value and, when it is true, address
\* is what *variable is set to.
Flash_AllocateVar(sector, size) ==
  IF size \in {1, 2, 4}
  THEN LET r == AllocScan(sector, size, 0, TRUE)
       IN  [ret |-> r.addressFound,
            address |-> FLASH_DATA_START + r.addressIndex]
  ELSE [ret |-> FALSE, address |-> 0]

\* The flash as a call finds it, with the commands the controller is going
\* to fail during the call.
HwOf(faults) ==
  [sector |-> Sector, fccob |-> FCCOB, launched |-> <<>>, faults |-> faults,
   reported |-> {}]

\* The flash as a call finds it when the controller is sound.
Hw == HwOf({})

\* Everything but the flash and lastOp.
serialVars == <<RxFIFO, TxFIFO, hwVars, packetVars, data, dataKept, irqVars,
                putVars, putRet, inCharRet, pgRet, rxQueue, trace, rxCount,
                rxWire, timerVars>>

\* The bytes of the sector inside the slot s = <<offset, size>>.
SlotBytes(s) == {b \in s[1] .. s[1] + s[2] - 1 : b < FLASH_SIZE}

\* The slot whose address is a and whose size is n.
SlotAt(a, n) == <<a - FLASH_DATA_START, n>>

\* Every byte of every slot allocated so far holds a programmed value.
SlotsProgrammed == \A s \in slots : \A b \in SlotBytes(s) : Sector[b] # 255

\* The application calls Flash_AllocateVar(&variable, size) on a pointer
\* that holds v.
AllocateCall ==
  /\ \E size \in AllocSizes, v \in VariableInit :
       LET r == Flash_AllocateVar(Sector, size)
           s == SlotAt(r.address, size)
           t == tracked /\ Cardinality(slots) < MaxAlloc
       IN  /\ flashArg' = <<size, v>>
           /\ flashRet' = r.ret
           /\ variable' = IF r.ret THEN r.address ELSE v
           /\ tracked' = t
           /\ slots' = IF ~t THEN {}
                       ELSE IF r.ret THEN slots \cup {s} ELSE slots
           /\ overlap' = (t /\ (overlap \/
                (r.ret /\ \E u \in slots : SlotBytes(u) \cap SlotBytes(s) # {})))
           /\ careful' = (t => (careful /\ SlotsProgrammed))
  /\ launched' = <<>>
  /\ reported' = {}
  /\ lastOp' = "Flash_AllocateVar"
  /\ UNCHANGED <<Sector, CommonCommandObject, FCCOB, launchVars, appVars,
                 serialVars>>

\* What a call of Flash_Write8/16/32/64 with result r leaves behind.
WriteEffect(r, address, d) ==
  /\ Sector' = r.sector
  /\ FCCOB' = r.fccob
  /\ CommonCommandObject' = r.cco
  /\ launched' = r.launched
  /\ reported' = r.reported
  /\ flashRet' = r.ret
  /\ flashArg' = <<address, d>>
  /\ LET t == tracked /\ address \in {FLASH_DATA_START + s[1] : s \in slots}
     IN  /\ tracked' = t
         /\ slots' = IF t THEN slots ELSE {}
         /\ overlap' = (t /\ overlap)
         /\ careful' = (t => careful)
  /\ variable' = 0
  /\ UNCHANGED <<launchVars, appVars, serialVars>>

\* The application calls Flash_Write8 at one of the given offsets; the
\* controller fails the commands of one of the given sets.
Write8CallOf(offsets, faultSets) ==
  /\ \E o \in offsets, d \in Data8, f \in faultSets :
       WriteEffect(Flash_Write8(HwOf(f), CommonCommandObject,
                                  FLASH_DATA_START + o, d),
                   FLASH_DATA_START + o, d)
  /\ lastOp' = "Flash_Write8"

Write8Call == Write8CallOf(WriteOffsets, {{}})

\* The application calls Flash_Write16 at one of the given offsets; the
\* controller fails the commands of one of the given sets.
Write16CallOf(offsets, faultSets) ==
  /\ \E o \in offsets, d \in Data16, f \in faultSets :
       WriteEffect(Flash_Write16(HwOf(f), CommonCommandObject,
                                   FLASH_DATA_START + o, d),
                   FLASH_DATA_START + o, d)
  /\ lastOp' = "Flash_Write16"

Write16Call == Write16CallOf(WriteOffsets, {{}})

\* The application calls Flash_Write32 at one of the given offsets; the
\* controller fails the commands of one of the given sets.
Write32CallOf(offsets, faultSets) ==
  /\ \E o \in offsets, d \in Data32, f \in faultSets :
       WriteEffect(Flash_Write32(HwOf(f), CommonCommandObject,
                                   FLASH_DATA_START + o, d),
                   FLASH_DATA_START + o, d)
  /\ lastOp' = "Flash_Write32"

Write32Call == Write32CallOf(WriteOffsets, {{}})

\* The application calls Flash_Write64 at one of the given offsets; the
\* controller fails the commands of one of the given sets.
Write64CallOf(offsets, faultSets) ==
  /\ \E o \in offsets, d \in Data64, f \in faultSets :
       WriteEffect(Flash_Write64(HwOf(f), CommonCommandObject,
                                   FLASH_DATA_START + o, d),
                   FLASH_DATA_START + o, d)
  /\ lastOp' = "Flash_Write64"

Write64Call == Write64CallOf(WriteOffsets, {{}})

\* The application calls Flash_Erase(); the controller fails the commands
\* of one of the given sets.
EraseCallOf(faultSets) ==
  /\ \E f \in faultSets :
     LET r == Flash_Erase(HwOf(f))
     IN  /\ Sector' = r.sector
         /\ FCCOB' = r.fccob
         /\ launched' = r.launched
         /\ reported' = r.reported
         /\ flashRet' = r.ret
  /\ flashArg' = <<0, 0>>
  /\ tracked' = TRUE
  /\ slots' = {}
  /\ overlap' = FALSE
  /\ careful' = TRUE
  /\ lastOp' = "Flash_Erase"
  /\ variable' = 0
  /\ UNCHANGED <<CommonCommandObject, launchVars, appVars, serialVars>>

EraseCall == EraseCallOf({{}})

NextFlash ==
  \/ AllocateCall \/ Write8Call \/ Write16Call \/ Write32Call \/ Write64Call
  \/ EraseCall

SpecFlash == Init /\ [][NextFlash]_vars

\* The flash with a controller that may fail any command.
FaultSets == SUBSET {ERASE_FLASH_SECTOR_COMMAND, PROGRAM_PHRASE_COMMAND}
HwOffsets == {0, 1, 2, 8}

Write8Hw == Write8CallOf(HwOffsets, FaultSets)
Write16Hw == Write16CallOf(HwOffsets, FaultSets)
Write32Hw == Write32CallOf(HwOffsets, FaultSets)
Write64Hw == Write64CallOf(HwOffsets, FaultSets)
EraseHw == EraseCallOf(FaultSets)

NextFlashHw == Write8Hw \/ Write16Hw \/ Write32Hw \/ Write64Hw \/ EraseHw

SpecFlashHw == Init /\ [][NextFlashHw]_vars

----------------------------------------------------------------------------
(* SpecCtx: the interrupt handlers and their callbacks beside the flash    *)

\* LEDs.c: the set of lit LEDs after LEDs_On, LEDs_Off and LEDs_Toggle.
LEDs_On(lit, color) == lit \cup {color}
LEDs_Off(lit, color) == lit \ {color}
LEDs_Toggle(lit, color) ==
  IF color \in lit THEN lit \ {color} ELSE lit \cup {color}

\* What a handler and its callback can reach: the LEDs and the flash.
Ctx ==
  [leds |-> leds,
   flash |-> [sector |-> Sector, fccob |-> FCCOB, launched |-> launched,
              faults |-> {}, reported |-> reported]]

PIT_Callback_Erases(c) ==
  [leds |-> LEDs_Toggle(c.leds, "GREEN"),
   flash |-> [f \in {"sector", "fccob", "launched", "faults", "reported"} |->
                Flash_Erase(c.flash)[f]]]

\* The callbacks main.c registers with PIT_Init, RTC_Init and FTM_Set.
PIT_Callback(c) == [c EXCEPT !.leds = LEDs_Toggle(c.leds, "GREEN")]
RTC_Callback(c) == [c EXCEPT !.leds = LEDs_Toggle(c.leds, "YELLOW")]
FTM_Callback(c) == [c EXCEPT !.leds = LEDs_Off(c.leds, "BLUE")]

\* What a handler that ran its callback to c leaves behind.
HandlerEffect(c) ==
  /\ leds' = c.leds
  /\ Sector' = c.flash.sector
  /\ FCCOB' = c.flash.fccob
  /\ launched' = c.flash.launched
  /\ reported' = c.flash.reported
  /\ UNCHANGED <<CommonCommandObject, variable, flashArg, flashRet, tracked,
                 slots, overlap, careful, launchVars, appVars>>
  /\ UNCHANGED <<rxWire, RxFIFO, TxFIFO, hwVars, packetVars, data, dataKept,
                 irqVars, putVars, putRet, inCharRet, pgRet, rxQueue, trace,
                 rxCount>>

\* PIT_ISR: the periodic timer has timed out; the flag is cleared and the
\* callback is called.
PIT_ISR ==
  /\ ~PRIMASK
  /\ HandlerEffect(PIT_Callback(Ctx))
  /\ lastOp' = "PIT_ISR"
  /\ UNCHANGED <<CHIE, CHF>>

\* RTC_ISR: a second has passed; the callback is called.
RTC_ISR ==
  /\ ~PRIMASK
  /\ HandlerEffect(RTC_Callback(Ctx))
  /\ lastOp' = "RTC_ISR"
  /\ UNCHANGED <<CHIE, CHF>>

\* FTM0_ISR: entered when channel 0 has its flag and its interrupt enable
\* set; the flag is cleared and the channel's callback is called.
FTM0_ISR ==
  /\ ~PRIMASK
  /\ CHF /\ CHIE
  /\ HandlerEffect(FTM_Callback(Ctx))
  /\ CHF' = FALSE
  /\ lastOp' = "FTM0_ISR"
  /\ UNCHANGED CHIE

\* The counter of FTM0, running since FTM_StartTimer, reaches the channel
\* value: the channel flag rises.
TimerMatch ==
  /\ CHIE /\ ~CHF
  /\ CHF' = TRUE
  /\ lastOp' = "TimerMatch"
  /\ UNCHANGED <<leds, CHIE, rxWire, flashVars, RxFIFO, TxFIFO, hwVars,
                 packetVars, data, dataKept, irqVars, putVars, putRet,
                 inCharRet, pgRet, rxQueue, trace, rxCount>>

\* PacketSuccess, called by HandlePacket in the main loop: the blue LED is
\* lit and the timer of channel 0 is started.
PacketSuccess ==
  /\ leds' = LEDs_On(leds, "BLUE")
  /\ CHIE' = TRUE
  /\ lastOp' = "PacketSuccess"
  /\ UNCHANGED <<CHF, rxWire, flashVars, RxFIFO, TxFIFO, hwVars, packetVars,
                 data, dataKept, irqVars, putVars, putRet, inCharRet, pgRet,
                 rxQueue, trace, rxCount>>

\* The offsets HandlePacket's flash commands write to here.
CtxOffsets == {0, 1}

HostSendCtx == HostSendOf({1}, 1)
Write8Ctx == Write8CallOf(CtxOffsets, {{}})

NextCtx ==
  \/ HostSendCtx \/ UART_ISR \/ PIT_ISR \/ RTC_ISR \/ FTM0_ISR \/ TimerMatch
  \/ PacketSuccess \/ AllocateCall \/ Write8Ctx \/ EraseCall

SpecCtx == Init /\ [][NextCtx]_vars

----------------------------------------------------------------------------
(* SpecLaunch: LaunchCommand statement by statement beside the controller  *)

\* The offsets and the data Flash_Write8 is called with here.
LaunchOffsets == {0, 1, 8}

\* The local command object of Flash_Erase after SetupCommand.  Its data
\* bytes are never read.
EraseObject ==
  SetupCommand([command |-> 0, data |-> [i \in 0 .. FLASH_SIZE - 1 |-> 0]],
               ERASE_FLASH_SECTOR_COMMAND)

\* What no statement of a flash operation touches.
launchFrame == <<reported, variable, tracked, slots, overlap, careful,
                 appVars, serialVars>>

\* The main loop calls Flash_Erase, which calls LaunchCommand on its local
\* command object.
LC_EraseCall ==
  /\ lpc = "idle"
  /\ lcQueue' = <<EraseObject>>
  /\ lpc' = "wait_ready"
  /\ launched' = <<>>
  /\ completed' = <<>>
  /\ flashArg' = <<0, 0>>
  /\ flashRet' = TRUE
  /\ lastOp' = "LaunchCommand"
  /\ UNCHANGED <<Sector, CommonCommandObject, FCCOB, CCIF, launchFrame>>

\* The main loop calls Flash_Write8: a refused index returns false at once;
\* otherwise the mirror is set up, Flash_Erase is called and then
\* LaunchCommand on the mirror.
LC_WriteCall ==
  /\ lpc = "idle"
  /\ \E o \in LaunchOffsets, d \in Data8 :
       LET r == Flash_Write8(Hw, CommonCommandObject, FLASH_DATA_START + o, d)
       IN  /\ flashArg' = <<FLASH_DATA_START + o, d>>
           /\ CommonCommandObject' = r.cco
           /\ IF r.launched = <<>>
              THEN /\ lcQueue' = <<>>
                   /\ lpc' = "idle"
                   /\ flashRet' = FALSE
                   /\ lastOp' = "Flash_Write8"
              ELSE /\ lcQueue' = <<EraseObject, r.cco>>
                   /\ lpc' = "wait_ready"
                   /\ flashRet' = TRUE
                   /\ lastOp' = "LaunchCommand"
  /\ launched' = <<>>
  /\ completed' = <<>>
  /\ UNCHANGED <<Sector, FCCOB, CCIF, launchFrame>>

LC_WaitReady_NoWait ==
  /\ lpc = "wait_ready"
  /\ lpc' = "load"
  /\ lastOp' = "LaunchCommand"
  /\ UNCHANGED <<Sector, CommonCommandObject, FCCOB, CCIF, lcQueue, completed,
                 launched, flashArg, flashRet, launchFrame>>

\* LaunchCommand: while (!(FTFE_FSTAT & CCIF)) ; left once the flag is set.
LC_WaitReady ==
  /\ lpc = "wait_ready"
  /\ CCIF
  /\ lpc' = "load"
  /\ lastOp' = "LaunchCommand"
  /\ UNCHANGED <<Sector, CommonCommandObject, FCCOB, CCIF, lcQueue, completed,
                 launched, flashArg, flashRet, launchFrame>>

\* LaunchCommand: FCCOB0..3 are written and the switch loads the phrase of
\* a program command; any other command than program and erase returns
\* false.
LC_Load ==
  /\ lpc = "load"
  /\ LET l == LaunchCommand(Hw, Head(lcQueue))
     IN  /\ FCCOB' = l.fccob
         /\ IF l.ret
            THEN lpc' = "execute" /\ UNCHANGED <<lcQueue, flashRet>>
            ELSE /\ lcQueue' = Tail(lcQueue)
                 /\ flashRet' = FALSE
                 /\ lpc' = IF Tail(lcQueue) = <<>> THEN "idle" ELSE "wait_ready"
  /\ lastOp' = "LaunchCommand"
  /\ UNCHANGED <<Sector, CommonCommandObject, CCIF, completed, launched,
                 flashArg, launchFrame>>

\* LaunchCommand: FTFE_FSTAT = CCIF clears the flag and starts the command.
LC_Execute ==
  /\ lpc = "execute"
  /\ CCIF' = FALSE
  /\ launched' = Append(launched, Head(lcQueue).command)
  /\ lpc' = "wait_done"
  /\ lastOp' = "LaunchCommand"
  /\ UNCHANGED <<Sector, CommonCommandObject, FCCOB, lcQueue, completed,
                 flashArg, flashRet, launchFrame>>

\* What LaunchCommand's return of true leaves behind: the operation launches
\* its next command object or returns to the main loop.
LC_Return ==
  /\ lcQueue' = Tail(lcQueue)
  /\ IF Tail(lcQueue) = <<>>
     THEN /\ lpc' = "idle"
          /\ lastOp' = IF Len(launched) = 1 THEN "Flash_Erase"
                       ELSE "Flash_Write8"
     ELSE /\ lpc' = "wait_ready"
          /\ lastOp' = "LaunchCommand"
  /\ UNCHANGED <<Sector, CommonCommandObject, FCCOB, CCIF, completed,
                 launched, flashArg, flashRet, launchFrame>>

LC_WaitDone_GivesUp ==
  /\ lpc = "wait_done"
  /\ LC_Return

\* LaunchCommand: while (!(FTFE_FSTAT & CCIF)) ; return true.
LC_WaitDone ==
  /\ lpc = "wait_done"
  /\ CCIF
  /\ LC_Return

\* The controller finishes what it is busy with, its reset sequence or the
\* command in FCCOB0, and sets CCIF.
ControllerDone ==
  /\ ~CCIF
  /\ CCIF' = TRUE
  /\ IF Len(completed) < Len(launched)
     THEN /\ Sector' = Controller(Sector, FCCOB)
          /\ completed' = Append(completed, FCCOB[0])
     ELSE UNCHANGED <<Sector, completed>>
  /\ lastOp' = "ControllerDone"
  /\ UNCHANGED <<CommonCommandObject, FCCOB, lpc, lcQueue, launched, flashArg,
                 flashRet, launchFrame>>

\* The statements of LaunchCommand.
LC_Step == LC_WaitReady \/ LC_Load \/ LC_Execute \/ LC_WaitDone

NextLaunch ==
  \/ LC_EraseCall \/ LC_WriteCall \/ LC_WaitReady \/ LC_Load \/ LC_Execute
  \/ LC_WaitDone \/ ControllerDone

\* The first flash operation may be called while the controller is still in
\* its reset sequence.
InitLaunch == InitProgram /\ CCIF \in BOOLEAN

SpecLaunch == InitLaunch /\ [][NextLaunch]_vars

\* SpecLaunch with the processor executing the statements of LaunchCommand
\* and the controller finishing whatever it is busy with.
SpecLaunchFair == SpecLaunch /\ WF_vars(LC_Step) /\ WF_vars(ControllerDone)

----------------------------------------------------------------------------
(* SpecDispatch: TowerInit and HandlePacket (main.c)                       *)

TOWER_STARTUP == 4
FLASH_PROGRAM_BYTE == 7
FLASH_READ_BYTE == 8
SPECIAL == 9
TOWER_NUMBER == 11
TIME == 12
TOWER_MODE == 13
PRINT_FLASH == 85
CR == 13
TOWER_DEFAULT_NUMBER == 33062
TOWER_DEFAULT_MODE == 1
PACKET_ACK_MASK == 128

\* What TowerInit and HandlePacket work on: the transmit buffer and its
\* interrupt enable, the flash and its mirror, the two pointers into the
\* flash, the LEDs and the interrupt enable of FTM channel 0.  launched
\* collects the commands launched during the run.
Machine ==
  [tx |-> TxFIFO, tie |-> TIE, sector |-> Sector, fccob |-> FCCOB,
   cco |-> CommonCommandObject, launched |-> <<>>, reported |-> {},
   num |-> TowerNumber, mode |-> TowerMode, leds |-> leds, chie |-> CHIE]

\* F of the value of r, r being computed once: the result of a call, handed
\* to the statements that follow it.
After(r, F(_)) == CHOOSE out \in {F(x) : x \in {r}} : TRUE

\* Packet_Put(a) on the machine m.
Packet_PutOn(m, a) ==
  After(OutChars(m.tx, m.tie, PacketBytes(a), 0),
        LAMBDA r : [m |-> [m EXCEPT !.tx = r.fifo, !.tie = r.tie],
                    ret |-> r.ret])

\* Packet_Put on each of the packets in turn, whatever the calls return.
RECURSIVE PutAll(_, _)
PutAll(m, packets) ==
  IF packets = <<>> THEN m
  ELSE After(Packet_PutOn(m, Head(packets)),
             LAMBDA r : PutAll(r.m, Tail(packets)))

\* An && chain of Packet_Put calls: it stops at the first that returns false.
RECURSIVE PutChain(_, _)
PutChain(m, packets) ==
  IF packets = <<>> THEN [m |-> m, ret |-> TRUE]
  ELSE After(Packet_PutOn(m, Head(packets)),
             LAMBDA r : IF r.ret THEN PutChain(r.m, Tail(packets))
                        ELSE [m |-> r.m, ret |-> FALSE])

\* The flash of the machine m as a flash call finds it.
HwOn(m) ==
  [sector |-> m.sector, fccob |-> m.fccob, launched |-> m.launched,
   faults |-> {}, reported |-> m.reported]

\* The machine after a flash call with result r.
FlashDone(m, r) ==
  [m EXCEPT !.sector = r.sector, !.fccob = r.fccob,
            !.launched = r.launched, !.reported = r.reported]

Flash_EraseOn(m) ==
  After(Flash_Erase(HwOn(m)),
        LAMBDA r : [m |-> FlashDone(m, r), ret |-> r.ret])

Flash_Write8On(m, address, d) ==
  After(Flash_Write8(HwOn(m), m.cco, address, d),
        LAMBDA r : [m |-> [FlashDone(m, r) EXCEPT !.cco = r.cco],
                    ret |-> r.ret])

Flash_Write16On(m, address, d) ==
  After(Flash_Write16(HwOn(m), m.cco, address, d),
        LAMBDA r : [m |-> [FlashDone(m, r) EXCEPT !.cco = r.cco],
                    ret |-> r.ret])

\* The byte read at FLASH_DATA_START + offset.  Outside the eight bytes this
\* program writes, the sector holds what the last erase left.
ReadByte(sector, offset) ==
  IF offset \in 0 .. FLASH_SIZE - 1 THEN FB(sector, offset) ELSE 255

\* _FH(FLASH_DATA_START + offset) on the little-endian core.
FH(sector, offset) ==
  ReadByte(sector, offset) + 256 * ReadByte(sector, offset + 1)

\* Flash_AllocateVar(&pointer, 2) and, if it returns true, Flash_Write16 of
\* the default value at the pointer.
AllocateDefault(m, pointer, default) ==
  After(Flash_AllocateVar(m.sector, 2),
        LAMBDA a : IF a.ret
                   THEN Flash_Write16On([m EXCEPT ![pointer] = a.address],
                                        a.address, default)
                   ELSE [m |-> m, ret |-> FALSE])

Flash_Init_NumberOnly(m) ==
  IF FH(m.sector, 0) = 65535
  THEN AllocateDefault(m, "num", TOWER_DEFAULT_NUMBER)
  ELSE [m |-> m, ret |-> TRUE]

\* Flash_Init: the tower number and the tower mode get their slots and their
\* default values where the flash reads 0xFFFF.
Flash_Init(m) ==
  After(IF FH(m.sector, 0) = 65535
        THEN AllocateDefault(m, "num", TOWER_DEFAULT_NUMBER)
        ELSE [m |-> m, ret |-> TRUE],
        LAMBDA n :
          After(IF FH(n.m.sector, 2) = 65535
                THEN AllocateDefault(n.m, "mode", TOWER_DEFAULT_MODE)
                ELSE [m |-> n.m, ret |-> TRUE],
                LAMBDA o : [m |-> o.m, ret |-> (n.ret /\ o.ret)]))

\* The packet TOWER_NUMBER or TOWER_MODE answers a get with: the half-word
\* the pointer refers to, low byte first.
PointerPacket(m, command, pointer) ==
  <<command, 1, ReadByte(m.sector, m[pointer] - FLASH_DATA_START),
    ReadByte(m.sector, m[pointer] - FLASH_DATA_START + 1)>>

\* TowerVersion = { .s = { 0, 1 } }: Lo is 0 and Hi is 1.
VersionPacket(command) == <<command, 118, 1, 0>>

HandleTowerStartup(m, p) ==
  IF p[2] = 0 /\ p[3] = 0 /\ p[4] = 0
  THEN PutChain(m, << <<TOWER_STARTUP, 0, 0, 0>>,
                      VersionPacket(SPECIAL),
                      PointerPacket(m, TOWER_NUMBER, "num"),
                      PointerPacket(m, TOWER_MODE, "mode") >>)
  ELSE [m |-> m, ret |-> FALSE]

HandleSpecial(m, p, Command) ==
  IF p[2] = 118 /\ p[3] = 120 /\ p[4] = CR
  THEN Packet_PutOn(m, VersionPacket(Command))
  ELSE [m |-> m, ret |-> FALSE]

\* The set branch of HandleTowerNumber and HandleTowerMode.
SetPointer(m, p, offset, pointer, default) ==
  IF FH(m.sector, offset) = 65535
  THEN AllocateDefault(m, pointer, default)
  ELSE Flash_Write16On(m, m[pointer], p[3] + 256 * p[4])

HandleTowerNumber(m, p, Command) ==
  IF p[2] = 1 /\ p[3] = 0 /\ p[4] = 0
  THEN Packet_PutOn(m, PointerPacket(m, Command, "num"))
  ELSE IF p[2] = 2
       THEN SetPointer(m, p, 0, "num", TOWER_DEFAULT_NUMBER)
       ELSE [m |-> m, ret |-> FALSE]

HandleTowerMode(m, p, Command) ==
  IF p[2] = 1
  THEN Packet_PutOn(m, PointerPacket(m, Command, "mode"))
  ELSE IF p[2] = 2
       THEN SetPointer(m, p, 2, "mode", TOWER_DEFAULT_MODE)
       ELSE [m |-> m, ret |-> FALSE]

HandleFlashProgramByte(m, p) ==
  IF p[2] < 8
  THEN Flash_Write8On(m, FLASH_DATA_START + p[2], p[4])
  ELSE IF p[2] = 8
       THEN After(Flash_EraseOn(m),
                  LAMBDA e : After(Flash_Init(e.m),
                                   LAMBDA i : [m |-> i.m,
                                               ret |-> (e.ret /\ i.ret)]))
       ELSE [m |-> m, ret |-> FALSE]

HandleFlashReadByte(m, p, Command) ==
  IF p[2] < FLASH_SIZE
  THEN Packet_PutOn(m, <<Command, p[2], 0, ReadByte(m.sector, p[2])>>)
  ELSE [m |-> m, ret |-> FALSE]

\* HandleTime: RTC_Set works on the real-time clock only.
HandleTime(m, p) ==
  [m |-> m,
   ret |-> (p[2] <= 23 /\ p[3] <= 59 /\ p[4] <= 59
            /\ ~(p[2] = 0 /\ p[3] = 0 /\ p[4] = 0))]

PrintFlash(m) ==
  PutAll(m, << <<FLASH_READ_BYTE, 118, 118, 118>> >>
            \o [i \in 1 .. FLASH_SIZE |->
                  <<FLASH_READ_BYTE, 0, i - 1, ReadByte(m.sector, i - 1)>>]
            \o << <<FLASH_READ_BYTE, 94, 94, 94>> >>)

\* PacketSuccess on the machine m.
PacketSuccessOn(m) ==
  [m EXCEPT !.leds = LEDs_On(m.leds, "BLUE"), !.chie = TRUE]

AckCommand_EchoesFlag(success, Command) == PACKET_ACK_MASK + Command

\* success << 7 | Command.
AckCommand(success, Command) ==
  (IF success THEN PACKET_ACK_MASK ELSE 0) + Command

\* The switch of HandlePacket.
Handler(m, p, Command) ==
  CASE Command = TOWER_STARTUP ->
         [name |-> "HandleTowerStartup", r |-> HandleTowerStartup(m, p)]
    [] Command = SPECIAL ->
         [name |-> "HandleSpecial", r |-> HandleSpecial(m, p, Command)]
    [] Command = TOWER_NUMBER ->
         [name |-> "HandleTowerNumber", r |-> HandleTowerNumber(m, p, Command)]
    [] Command = TOWER_MODE ->
         [name |-> "HandleTowerMode", r |-> HandleTowerMode(m, p, Command)]
    [] Command = FLASH_PROGRAM_BYTE ->
         [name |-> "HandleFlashProgramByte", r |-> HandleFlashProgramByte(m, p)]
    [] Command = FLASH_READ_BYTE ->
         [name |-> "HandleFlashReadByte",
          r |-> HandleFlashReadByte(m, p, Command)]
    [] Command = TIME ->
         [name |-> "HandleTime", r |-> HandleTime(m, p)]
    [] Command = PRINT_FLASH ->
         [name |-> "PrintFlash", r |-> [m |-> PrintFlash(m), ret |-> TRUE]]
    [] OTHER ->
         [name |-> "default", r |-> [m |-> m, ret |-> TRUE]]

\* HandlePacket once Packet_Get has returned true with the packet p: the
\* handler, PacketSuccess if it succeeded, the acknowledgement if asked for.
Dispatch(m, p) ==
  LET Command == p[1] % PACKET_ACK_MASK
      ACK     == p[1] >= PACKET_ACK_MASK
  IN  After(Handler(m, p, Command),
        LAMBDA h :
          After(IF h.r.ret THEN PacketSuccessOn(h.r.m) ELSE h.r.m,
            LAMBDA m1 :
              [m |-> IF ACK
                     THEN Packet_PutOn(m1, <<AckCommand(h.r.ret, Command),
                                             p[2], p[3], p[4]>>).m
                     ELSE m1,
               handler |-> h.name, success |-> h.r.ret, ack |-> ACK,
               afterHandler |-> m1.tx]))

\* The assignments of a run of TowerInit or HandlePacket that ends in m.
MachineEffect(m) ==
  /\ TxFIFO' = m.tx
  /\ TIE' = m.tie
  /\ Sector' = m.sector
  /\ FCCOB' = m.fccob
  /\ CommonCommandObject' = m.cco
  /\ launched' = m.launched
  /\ reported' = m.reported
  /\ TowerNumber' = m.num
  /\ TowerMode' = m.mode
  /\ leds' = m.leds
  /\ CHIE' = m.chie
  /\ UNCHANGED <<CHF, rxWire, RxFIFO, RIE, RDRF, TDRE, UART2_D, txWire, data,
                 dataKept, irqVars, putVars, putRet, inCharRet, rxQueue,
                 trace, rxCount, variable, flashArg, tracked, slots, overlap,
                 careful, launchVars>>

\* TowerInit from Flash_Init on, interrupts masked: Flash_Init and, if it
\* returned true, LEDs_On(LED_ORANGE) and HandleTowerStartup on the packet
\* variables as they start.  The other modules initialise without fail.
TowerInit ==
  /\ dsp.handler = "reset"
  /\ \E i \in {Flash_Init(Machine)} :
       \E h \in {IF i.ret
                 THEN HandleTowerStartup(
                        [i.m EXCEPT !.leds = LEDs_On(i.m.leds, "ORANGE")],
                        <<Packet_Command, Packet_Parameter1,
                          Packet_Parameter2, Packet_Parameter3>>).m
                 ELSE i.m} :
         /\ MachineEffect(h)
         /\ flashRet' = i.ret
         /\ dsp' = [dsp EXCEPT !.handler = "TowerInit", !.success = i.ret,
                               !.afterHandler = h.tx]
  /\ lastOp' = "TowerInit"
  /\ UNCHANGED <<packetVars, pgRet>>

\* The validated packets the host sends here.
DispatchPackets ==
  { <<4, 0, 0, 0>>, <<132, 0, 0, 0>>,
    <<7, 0, 0, 0>>, <<135, 1, 0, 0>>, <<7, 5, 0, 170>>, <<7, 8, 0, 0>>,
    <<135, 8, 0, 0>>,
    <<135, 9, 0, 0>>, <<136, 0, 0, 0>>, <<9, 118, 120, 13>>,
    <<139, 2, 255, 255>>, <<11, 1, 0, 0>>, <<141, 2, 1, 0>>,
    <<140, 1, 0, 0>>, <<140, 0, 0, 0>>, <<85, 0, 0, 0>>, <<255, 0, 0, 0>> }

MaxDispatch == 1

\* HandlePacket in the main loop, which main enters if TowerInit returned
\* true, when its Packet_Get returns true: the call leaves a validated packet
\* in the packet variables and the position at 0.
HandlePacket ==
  /\ dsp.handler # "reset"
  /\ dsp.handler = "TowerInit" => dsp.success
  /\ dsp.count < MaxDispatch
  /\ \E p \in DispatchPackets :
       \E d \in {Dispatch(Machine, p)} :
         /\ Packet_Command' = p[1]
         /\ Packet_Parameter1' = p[2]
         /\ Packet_Parameter2' = p[3]
         /\ Packet_Parameter3' = p[4]
         /\ Packet_Checksum' = calculateChecksum(p[1], p[2], p[3], p[4])
         /\ MachineEffect(d.m)
         /\ flashRet' = d.success
         /\ dsp' = [count |-> dsp.count + 1, handler |-> d.handler,
                    success |-> d.success, ack |-> d.ack,
                    afterHandler |-> d.afterHandler,
                    sectorBefore |-> Sector]
  /\ ByteCount' = 0
  /\ pgRet' = TRUE
  /\ lastOp' = "HandlePacket"

NextDispatch == TowerInit \/ HandlePacket \/ UART_ISR \/ TxShifted

\* What earlier runs of the program can have left in the sector, which
\* keeps its contents over a reset: nothing, the defaults and 0xAA written at
\* offset 5, a tower number set to 0xFFFF, and 0 written to every byte.
DispatchSectors ==
  { [i \in 0 .. FLASH_SIZE - 1 |-> 255],
    [i \in 0 .. FLASH_SIZE - 1 |->
       CASE i = 0 -> 38 [] i = 1 -> 129 [] i = 2 -> 1 [] i = 3 -> 0
         [] i = 5 -> 170 [] OTHER -> 255],
    [i \in 0 .. FLASH_SIZE - 1 |->
       CASE i = 2 -> 1 [] i = 3 -> 0 [] OTHER -> 255],
    [i \in 0 .. FLASH_SIZE - 1 |-> 0] }

InitDispatch == (\E sector \in DispatchSectors : InitOn(sector)) /\ CCIF = TRUE

SpecDispatch == InitDispatch /\ [][NextDispatch]_vars

----------------------------------------------------------------------------
(* Interrupt safety                                                        *)

\* The statements of FIFO_Get and FIFO_Put from the test of NbBytes to the
\* last update: the main loop is about to execute one of them.
InsideFifo ==
  pc \in {"get_test", "get_read", "get_dec", "get_adv", "get_exit_true",
          "get_exit_false", "put_test", "put_store", "put_inc", "put_adv",
          "put_exit_true", "put_exit_false"}

\* Count and indices of a FIFO agree.
Consistent(F) == F.End = (F.Start + F.NbBytes) % FIFO_SIZE

\* C5: the interrupt handler never runs while the main loop is between the
\* test of NbBytes and the last update of a FIFO_Get or FIFO_Put, and neither
\* the handler at its entry nor the main loop at its test of NbBytes finds a
\* FIFO whose count and indices disagree.
C5_Indivisible ==
  [][/\ (lastOp' = "UART_ISR")
          => (~InsideFifo /\ Consistent(RxFIFO) /\ Consistent(TxFIFO))
     /\ (pc \in {"get_test", "put_test"})
          => (Consistent(RxFIFO) /\ Consistent(TxFIFO))]_vars

\* The handler has run between two statements of Packet_Get that lie outside
\* the critical section, with the FIFO_Get of that call already done.
C5_Witness ==
  /\ lastOp = "UART_ISR"
  /\ pc = "pg_parse"
  /\ inCharRet
  /\ RxFIFO.NbBytes > 0
  /\ RxFIFO.Start > 0

----------------------------------------------------------------------------
(* The ring buffer (FIFO.c)                                                *)

\* C1: FIFO order.  Every byte FIFO_Get returns is the oldest byte FIFO_Put
\* accepted and FIFO_Get has not yet returned, and FIFO_Get succeeds whenever
\* such a byte exists: n accepted bytes come back from the next n gets, in
\* the order they were put.
C1_FifoOrder ==
  [][(lastOp' = "Packet_Get" /\ rxQueue # <<>>)
       => (inCharRet' /\ data' = Head(rxQueue) /\ rxQueue' = Tail(rxQueue))]_vars

\* A get on a full buffer has returned its oldest byte, which differs from
\* the byte put after it.
C1_Witness ==
  /\ lastOp = "Packet_Get"
  /\ inCharRet
  /\ Len(rxQueue) = FIFO_SIZE - 1
  /\ data # rxQueue[1]

\* C2: ring buffer invariant.  NbBytes stays in 0 .. FIFO_SIZE, Start and End
\* in 0 .. FIFO_SIZE-1; NbBytes is 0 exactly when no unread byte is held and
\* FIFO_SIZE exactly when FIFO_SIZE unread bytes are held.
C2_RingInvariant ==
  /\ \A F \in {RxFIFO, TxFIFO} :
       /\ F.NbBytes \in 0 .. FIFO_SIZE
       /\ F.Start \in 0 .. FIFO_SIZE - 1
       /\ F.End \in 0 .. FIFO_SIZE - 1
  /\ (RxFIFO.NbBytes = 0) <=> (rxQueue = <<>>)
  /\ (RxFIFO.NbBytes = FIFO_SIZE) <=> (Len(rxQueue) = FIFO_SIZE)

\* The buffer is full after its indices have wrapped.
C2_Witness ==
  /\ RxFIFO.NbBytes = FIFO_SIZE
  /\ RxFIFO.Start > 0
  /\ RxFIFO.End = RxFIFO.Start

\* C3: FIFO_Put returns true exactly when NbBytes < FIFO_SIZE at the call,
\* and on a full buffer it changes nothing of the FIFO.
C3_PutOnFull ==
  [][(lastOp' = "UART_ISR" /\ RIE /\ RDRF)
       => /\ putRet' = (RxFIFO.NbBytes < FIFO_SIZE)
          /\ (RxFIFO.NbBytes = FIFO_SIZE => RxFIFO' = RxFIFO)]_vars

\* The handler's FIFO_Put was refused: the buffer was full.
C3_Witness ==
  /\ lastOp = "UART_ISR"
  /\ ~putRet
  /\ RxFIFO.NbBytes = FIFO_SIZE
  /\ rxCount = FIFO_SIZE + 1

\* C4: FIFO_Get returns true exactly when NbBytes > 0 at the call, and on an
\* empty buffer it changes neither the FIFO nor the caller's output byte.
C4_GetOnEmpty ==
  [][(lastOp' = "Packet_Get")
       => /\ inCharRet' = (RxFIFO.NbBytes > 0)
          /\ (RxFIFO.NbBytes = 0 => (RxFIFO' = RxFIFO /\ dataKept'))]_vars

\* A get on an emptied buffer failed and did not copy the cell at Start.
C4_Witness ==
  /\ lastOp = "Packet_Get"
  /\ ~inCharRet
  /\ RxFIFO.NbBytes = 0
  /\ RxFIFO.Start > 0
  /\ data # RxFIFO.Buffer[RxFIFO.Start]

----------------------------------------------------------------------------
(* The packet parser (packet.c)                                            *)

\* The byte Packet_Get consumed i-th.
TraceByte(i) == trace[i].byte

\* C6: five bytes c, p1, p2, p3, c^p1^p2^p3 consumed from position 0 make
\* Packet_Get return false four times and then true, leaving the four fields
\* equal to c, p1, p2, p3 and the position at 0.
C6_ValidPacket ==
  \A i \in 1 .. Len(trace) :
    trace[i].pos = 0 =>
      /\ \A k \in 0 .. 3 : i + k <= Len(trace) => ~trace[i + k].ret
      /\ (i + 4 <= Len(trace) /\
          TraceByte(i + 4) = Xor8(Xor8(Xor8(TraceByte(i), TraceByte(i + 1)),
                                       TraceByte(i + 2)), TraceByte(i + 3)))
           => /\ trace[i + 4].ret
              /\ (i + 4 = Len(trace) =>
                    /\ Packet_Command = TraceByte(i)
                    /\ Packet_Parameter1 = TraceByte(i + 1)
                    /\ Packet_Parameter2 = TraceByte(i + 2)
                    /\ Packet_Parameter3 = TraceByte(i + 3)
                    /\ ByteCount = 0)

\* A packet with four fields that are not all equal has been accepted.
C6_Witness ==
  /\ Len(trace) = 5
  /\ trace[1].pos = 0
  /\ trace[5].ret
  /\ Packet_Command # Packet_Parameter1
  /\ Packet_Parameter2 # Packet_Parameter3

\* C7: a byte consumed at position 4 that is not the XOR of the four fields
\* makes Packet_Get return false, leaves the position at 4 and shifts the
\* fields left by one; at position 4 Packet_Get returns true exactly when
\* the byte is the XOR of the window as it then stands.
C7_SlidingWindow ==
  [][(lastOp' = "Packet_Get" /\ inCharRet' /\ ByteCount = 4)
       => LET sum == Xor8(Xor8(Xor8(Packet_Command, Packet_Parameter1),
                               Packet_Parameter2), Packet_Parameter3)
          IN  /\ pgRet' = (data' = sum)
              /\ (data' # sum =>
                    /\ ByteCount' = 4
                    /\ Packet_Command' = Packet_Parameter1
                    /\ Packet_Parameter1' = Packet_Parameter2
                    /\ Packet_Parameter2' = Packet_Parameter3
                    /\ Packet_Parameter3' = data')]_vars

\* A fifth byte was rejected, and the sixth completed the shifted window.
C7_Witness ==
  /\ Len(trace) = 6
  /\ trace[5].pos = 4 /\ ~trace[5].ret
  /\ trace[6].pos = 4 /\ trace[6].ret
  /\ TraceByte(1) # 0

\* C8: the assembly position is in 0 .. 4 in every reachable state.
C8_PositionRange == ByteCount \in 0 .. 4

\* The parser has just rejected a checksum and stays at position 4.
C8_Witness ==
  /\ lastOp = "Packet_Get"
  /\ Len(trace) >= 5
  /\ trace[Len(trace)].pos = 4
  /\ ~pgRet
  /\ ByteCount = 4

\* C9: when Packet_Get returns true the XOR of the four fields equals
\* Packet_Checksum, and the five fields are the five bytes last dequeued.
C9_TrueMeansValid ==
  (lastOp = "Packet_Get" /\ pgRet) =>
    /\ Xor8(Xor8(Xor8(Packet_Command, Packet_Parameter1), Packet_Parameter2),
            Packet_Parameter3) = Packet_Checksum
    /\ Len(trace) >= 5
    /\ LET n == Len(trace)
       IN  <<Packet_Command, Packet_Parameter1, Packet_Parameter2,
             Packet_Parameter3, Packet_Checksum>>
             = <<TraceByte(n - 4), TraceByte(n - 3), TraceByte(n - 2),
                 TraceByte(n - 1), TraceByte(n)>>

\* Packet_Get returned true on a window reached by a shift.
C9_Witness ==
  /\ lastOp = "Packet_Get"
  /\ pgRet
  /\ Len(trace) = 6
  /\ Packet_Parameter3 # 0

\* C10: Packet_Get dequeues exactly one byte when the receive buffer holds
\* one, and on an empty buffer returns false and leaves the position and the
\* five fields as they were.
C10_OneBytePerCall ==
  [][(lastOp' = "Packet_Get")
       => IF RxFIFO.NbBytes > 0
          THEN Unread(RxFIFO') = Tail(Unread(RxFIFO))
          ELSE /\ ~pgRet'
               /\ Unread(RxFIFO') = Unread(RxFIFO)
               /\ UNCHANGED packetVars]_vars

\* Packet_Get found the buffer empty in the middle of a packet.
C10_Witness ==
  /\ lastOp = "Packet_Get"
  /\ ~inCharRet
  /\ ByteCount = 3
  /\ Packet_Command # 0

\* The XOR of four bytes, as the protocol defines the checksum.
Xor4(a, b, c, d) == Xor8(Xor8(Xor8(a, b), c), d)

\* Bytes i+1 .. i+5 of the consumed stream are a valid packet.
PacketAt(i) ==
  /\ i + 5 <= Len(trace)
  /\ TraceByte(i + 5) = Xor4(TraceByte(i + 1), TraceByte(i + 2),
                             TraceByte(i + 3), TraceByte(i + 4))

\* What C11 promises for a spurious byte consumed i-th at position 0 and
\* followed by a valid packet: true on the packet's checksum byte and on no
\* earlier byte, and the packet's fields held then.
RecoversAt(i) ==
  /\ \A k \in 0 .. 4 : ~trace[i + k].ret
  /\ trace[i + 5].ret
  /\ (i + 5 = Len(trace) =>
        /\ Packet_Command = TraceByte(i + 1)
        /\ Packet_Parameter1 = TraceByte(i + 2)
        /\ Packet_Parameter2 = TraceByte(i + 3)
        /\ Packet_Parameter3 = TraceByte(i + 4))

\* C11 as claimed: a spurious byte g at position 0 followed by any valid
\* packet c, p1, p2, p3, c^p1^p2^p3 makes Packet_Get return true on the
\* packet's checksum byte, with the packet's fields, and not before.
C11_AsClaimed ==
  \A i \in 1 .. Len(trace) :
    (trace[i].pos = 0 /\ PacketAt(i)) => RecoversAt(i)

\* C11 as amended: the same, for packets whose p3 is not g^c^p1^p2 (when it
\* is, the five bytes g, c, p1, p2, p3 are themselves a valid packet and
\* Packet_Get returns true on p3).
C11_Recovery ==
  \A i \in 1 .. Len(trace) :
    (trace[i].pos = 0 /\ PacketAt(i)) =>
      IF TraceByte(i + 4) # Xor4(TraceByte(i), TraceByte(i + 1),
                                 TraceByte(i + 2), TraceByte(i + 3))
      THEN RecoversAt(i)
      ELSE trace[i + 4].ret

\* The parser has recovered the packet 1, 1, 129, 129, 0 sent after a
\* spurious 1.
C11_Witness ==
  /\ Len(trace) = 6
  /\ trace[1].pos = 0
  /\ <<TraceByte(1), TraceByte(2), TraceByte(3), TraceByte(4), TraceByte(5),
       TraceByte(6)>> = <<1, 1, 1, 129, 129, 0>>
  /\ pgRet
  /\ ~trace[5].ret
  /\ Packet_Command = 1 /\ Packet_Parameter3 = 129

\* The free cells of a FIFO.
Free(F) == FIFO_SIZE - F.NbBytes

\* C12: a Packet_Put that begins with at least five free cells in the
\* transmit buffer returns true and appends exactly cmd, p1, p2, p3,
\* cmd^p1^p2^p3 in that order; each get of the handler removes the oldest
\* byte, and the gets after one Packet_Put on the initially empty buffer
\* return exactly that sequence.
C12_PutAppendsFrame ==
  [][/\ (putCalls' = putCalls + 1 /\ Free(TxFIFO) >= 5) =>
          /\ ppRet'
          /\ \E a \in TxArgs :
               ppBytes' = <<a[1], a[2], a[3], a[4],
                            Xor4(a[1], a[2], a[3], a[4])>>
          /\ Unread(TxFIFO') = Unread(TxFIFO) \o ppBytes'
     /\ txWire' # txWire =>
          /\ txWire' = Append(txWire, Head(Unread(TxFIFO)))
          /\ Unread(TxFIFO') = Tail(Unread(TxFIFO))
     /\ putCalls' = 1 => txWire' \o Unread(TxFIFO') = ppBytes'
    ]_vars

\* The handler has drained the five bytes of one Packet_Put.
C12_Witness ==
  /\ putCalls = 1
  /\ ppRet
  /\ txWire = <<132, 0, 1, 129, 4>>
  /\ TxFIFO.NbBytes = 0

\* C13: Packet_Put returns true exactly when all five bytes were enqueued,
\* which is exactly when the transmit buffer had at least five free cells
\* as the call began; with fewer it returns false.
C13_TrueIffFiveFree ==
  [][putCalls' = putCalls + 1 =>
       /\ ppRet' <=> (Free(TxFIFO) >= 5)
       /\ ppRet' <=> (TxFIFO'.NbBytes = TxFIFO.NbBytes + 5)
       /\ ppRet' <=> (ppIdx' = 5 /\ Free(TxFIFO') >= 0
                        /\ Unread(TxFIFO') = Unread(TxFIFO) \o ppBytes')
    ]_vars

\* A Packet_Put that began with between one and four free cells has
\* returned false.
C13_Witness ==
  /\ lastOp = "Packet_Put"
  /\ putCalls = 2
  /\ ~ppRet
  /\ ppIdx \in 2 .. 5
  /\ Len(txWire) \in 1 .. 4

\* C14: wherever the interrupt handler can run, the bytes Packet_Put calls
\* have enqueued so far (those still in the transmit buffer and those the
\* handler has drained) are whole 5-byte frames: the handler never sees a
\* partially written packet.
C14_WholeFrames ==
  ~PRIMASK => (Len(txWire) + TxFIFO.NbBytes) % 5 = 0

\* The indexes at which a slot of the given size is free: multiples of size
\* whose size bytes are inside the sector and all erased.
FreeRuns(sector, size) ==
  {i \in 0 .. FLASH_SIZE - 1 :
     /\ i % size = 0
     /\ \A k \in 0 .. size - 1 : i + k < FLASH_SIZE /\ sector[i + k] = 255}

\* The smallest element of a non-empty set of numbers.
Least(S) == CHOOSE i \in S : \A k \in S : i <= k

\* This step is a call Flash_AllocateVar(&variable, size), size in {1,2,4}.
AllocStep == lastOp' = "Flash_AllocateVar" /\ flashArg'[1] \in {1, 2, 4}

\* C15: first fit.  Whenever a free slot of the requested size exists,
\* Flash_AllocateVar returns true and sets the variable to base + the
\* smallest index of one.
C15_FirstFit ==
  [][(AllocStep /\ FreeRuns(Sector, flashArg'[1]) # {}) =>
       /\ flashRet'
       /\ variable' = FLASH_DATA_START + Least(FreeRuns(Sector, flashArg'[1]))
    ]_vars

\* C16: exhaustion.  Whenever no free slot of the requested size exists,
\* Flash_AllocateVar returns false and leaves the caller's variable as it
\* was.
C16_Exhausted ==
  [][(AllocStep /\ FreeRuns(Sector, flashArg'[1]) = {}) =>
       /\ ~flashRet'
       /\ variable' = flashArg'[2]
    ]_vars

\* The sector is all erased.
Erased == \A i \in 0 .. FLASH_SIZE - 1 : Sector[i] = 255

\* C17: on an all-erased sector Flash_AllocateVar with a size in {1,2,4}
\* returns true and yields the sector's base address.
C17_ErasedGivesBase ==
  [][(AllocStep /\ Erased) => (flashRet' /\ variable' = FLASH_DATA_START)]_vars

\* A 4-byte slot has been allocated at the base of an erased sector.
C17_Witness ==
  /\ lastOp = "Flash_AllocateVar"
  /\ flashArg[1] = 4
  /\ Erased
  /\ flashRet
  /\ variable = FLASH_DATA_START

\* C18: the address a successful Flash_AllocateVar(size) produces is a
\* multiple of size.
C18_Aligned ==
  [][(AllocStep /\ flashRet') => variable' % flashArg'[1] = 0]_vars

\* C19 as claimed: over Flash_AllocateVar calls and writes to allocated
\* addresses since the last erase, no two allocated slots share a byte of
\* the sector.
C19_AsClaimed == tracked => ~overlap

\* C19 as amended: the same, provided every Flash_AllocateVar call finds
\* the slots allocated before it holding no 0xFF byte.
C19_NoOverlap == (tracked /\ careful) => ~overlap

\* Two slots allocated, the first written before the second was allocated,
\* one after the other in the sector.
C19_Witness ==
  /\ tracked /\ careful /\ ~overlap
  /\ slots = {<<0, 2>>, <<2, 1>>}
  /\ lastOp = "Flash_AllocateVar"
  /\ Sector[0] = 0 /\ Sector[1] = 0 /\ Sector[2] = 255

\* C20: Flash_Write16 at an odd offset and Flash_Write32 at an offset that
\* is not a multiple of 4 return false, issue no command to the controller
\* and leave the sector and the command mirror as they were.
C20_UnalignedRefused ==
  [][(\/ /\ lastOp' = "Flash_Write16"
         /\ (flashArg'[1] - FLASH_DATA_START) % 2 # 0
      \/ /\ lastOp' = "Flash_Write32"
         /\ (flashArg'[1] - FLASH_DATA_START) % 4 # 0) =>
       /\ ~flashRet'
       /\ launched' = <<>>
       /\ FCCOB' = FCCOB
       /\ Sector' = Sector
       /\ CommonCommandObject' = CommonCommandObject
    ]_vars

\* Flash_Write16 at offset 1 has been refused on a sector that holds data.
C20_Witness ==
  /\ lastOp = "Flash_Write16"
  /\ flashArg[1] = FLASH_DATA_START + 1
  /\ ~flashRet
  /\ launched = <<>>
  /\ Sector[0] = 0 /\ Sector[1] = 255
  /\ CommonCommandObject.data = Sector

\* The width in bytes of the write this step is, or 0 if it is no write.
StepWidth ==
  CASE lastOp' = "Flash_Write8" -> 1
    [] lastOp' = "Flash_Write16" -> 2
    [] lastOp' = "Flash_Write32" -> 4
    [] lastOp' = "Flash_Write64" -> 8
    [] OTHER -> 0

\* This step is a call of Flash_Write8/16/32/64.
WriteStep == StepWidth # 0

\* The offset from the sector base of the address this step writes to.
StepOffset == flashArg'[1] - FLASH_DATA_START

\* The offset is inside the sector and a multiple of the width.
ValidOffset ==
  /\ StepOffset \in 0 .. FLASH_SIZE - 1
  /\ StepOffset % StepWidth = 0

\* Byte n, counted from the least significant, of the datum this step
\* writes.
StepByte(n) ==
  LET d == flashArg'[2]
      B(v, k) == (v \div (256 ^ k)) % 256
  IN  IF StepWidth = 8
      THEN IF n < 4 THEN B(d[2], n) ELSE B(d[1], n - 4)
      ELSE B(d, n)

\* The sector bytes this step is to write.
StepRange == StepOffset .. StepOffset + StepWidth - 1

\* C21: a write whose offset from the base is negative or >= FLASH_SIZE
\* returns false and leaves the sector unchanged.
C21_OutOfRange ==
  [][(WriteStep /\ StepOffset \notin 0 .. FLASH_SIZE - 1) =>
       (~flashRet' /\ Sector' = Sector)]_vars

\* C22 as claimed: Flash_Write64 accepts an in-range offset that is not a
\* multiple of 8.
C22_AsClaimed ==
  [][(/\ lastOp' = "Flash_Write64"
      /\ StepOffset \in 0 .. FLASH_SIZE - 1
      /\ StepOffset % 8 # 0) => flashRet']_vars

\* C22 as amended: Flash_Write64 refuses an in-range offset that is not a
\* multiple of 8 as the narrower writes refuse theirs: it returns false,
\* issues no command and leaves the sector and the mirror unchanged.
C22_Write64Aligned ==
  [][(/\ lastOp' = "Flash_Write64"
      /\ StepOffset \in 0 .. FLASH_SIZE - 1
      /\ StepOffset % 8 # 0) =>
       /\ ~flashRet'
       /\ launched' = <<>>
       /\ Sector' = Sector
       /\ CommonCommandObject' = CommonCommandObject]_vars

\* Flash_Write64 at offset 4 has been refused on a sector that holds data.
C22_Witness ==
  /\ lastOp = "Flash_Write64"
  /\ flashArg[1] = FLASH_DATA_START + 4
  /\ ~flashRet
  /\ launched = <<>>
  /\ Sector[0] = 0

\* C23: after a write at a valid offset that returned true, every sector
\* byte outside the bytes written holds the value it held before.
C23_Siblings ==
  [][(WriteStep /\ ValidOffset /\ flashRet') =>
       \A k \in (0 .. FLASH_SIZE - 1) \ StepRange : Sector'[k] = Sector[k]
    ]_vars

\* C24: after a write of v at a valid offset that returned true, the sector
\* equals the mirror and holds v at the offset, least significant byte
\* first.
C24_RoundTrip ==
  [][(WriteStep /\ ValidOffset /\ flashRet') =>
       /\ Sector' = CommonCommandObject'.data
       /\ \A k \in StepRange : Sector'[k] = StepByte(k - StepOffset)
    ]_vars

\* C25: a write during which the controller reported an error, for the
\* erase or for the program command, returns false.
C25_FailsOnError ==
  [][(WriteStep /\ reported' # {}) => ~flashRet']_vars

\* C26: Flash_Erase issues exactly the sector-erase command, whatever the
\* sector holds; when the controller has run it every sector byte is 0xFF,
\* and an already erased sector is left as it was.
C26_Erase ==
  [][lastOp' = "Flash_Erase" =>
       /\ launched' = <<ERASE_FLASH_SECTOR_COMMAND>>
       /\ FCCOB'[0] = ERASE_FLASH_SECTOR_COMMAND
       /\ reported' = {} =>
            (flashRet' /\ \A i \in 0 .. FLASH_SIZE - 1 : Sector'[i] = 255)
       /\ Erased => Sector' = Sector
    ]_vars

\* Flash_Erase has erased a sector whose byte 0 had been programmed.
C26_Witness ==
  /\ lastOp = "Flash_Erase"
  /\ reported = {}
  /\ launched = <<ERASE_FLASH_SECTOR_COMMAND>>
  /\ Erased
  /\ CommonCommandObject.command = PROGRAM_PHRASE_COMMAND
  /\ CommonCommandObject.data[0] = 0

\* C30: a write that passes the test of its index takes the snapshot of the
\* sector as it was before any command, updates it, and then issues exactly
\* one erase followed by exactly one program command whose phrase is the
\* updated mirror.
C30_WriteOrder ==
  [][(/\ WriteStep
      /\ Index(flashArg'[1]) < FLASH_SIZE
      /\ Index(flashArg'[1]) % StepWidth = 0) =>
       LET i == Index(flashArg'[1])
       IN  /\ launched' = <<ERASE_FLASH_SECTOR_COMMAND, PROGRAM_PHRASE_COMMAND>>
           /\ \A k \in 0 .. FLASH_SIZE - 1 :
                CommonCommandObject'.data[k] =
                  IF k \in i .. i + StepWidth - 1
                  THEN StepByte(k - i) ELSE Sector[k]
           /\ FCCOB'[0] = PROGRAM_PHRASE_COMMAND
           /\ \A k \in 0 .. 3 :
                /\ FCCOB'[7 - k] = CommonCommandObject'.data[k]
                /\ FCCOB'[11 - k] = CommonCommandObject'.data[k + 4]
    ]_vars

\* Flash_Write8 has written 0 to offset 1 of a sector whose byte 0 was
\* programmed: both commands were issued and the mirror kept byte 0.
C30_Witness ==
  /\ lastOp = "Flash_Write8"
  /\ flashArg = <<FLASH_DATA_START + 1, 0>>
  /\ launched = <<ERASE_FLASH_SECTOR_COMMAND, PROGRAM_PHRASE_COMMAND>>
  /\ reported = {}
  /\ CommonCommandObject.data[0] = 0
  /\ Sector[0] = 0 /\ Sector[1] = 0 /\ Sector[2] = 255

\* The step from F to G enqueues: it stores a byte or moves the write end.
Enqueues(F, G) ==
  G.Buffer # F.Buffer \/ G.End # F.End \/ G.NbBytes > F.NbBytes

\* The step from F to G dequeues: it moves the read end or drops the count.
Dequeues(F, G) ==
  G.Start # F.Start \/ G.NbBytes < F.NbBytes

\* C27: a step that enqueues into RxFIFO or dequeues from TxFIFO is a run of
\* UART_ISR; a step that dequeues from RxFIFO is a statement of FIFO_Get
\* inside Packet_Get, and a step that enqueues into TxFIFO is a statement of
\* FIFO_Put inside Packet_Put, both of the main loop.
C27_Roles ==
  [][/\ Enqueues(RxFIFO, RxFIFO') => lastOp' = "UART_ISR"
     /\ Dequeues(TxFIFO, TxFIFO') => lastOp' = "UART_ISR"
     /\ Dequeues(RxFIFO, RxFIFO') =>
          (lastOp' = "main" /\ pc \in {"get_dec", "get_adv"})
     /\ Enqueues(TxFIFO, TxFIFO') =>
          (lastOp' = "main" /\ pc \in {"put_store", "put_inc", "put_adv"})
    ]_vars

\* Both buffers have been through both of their ends: Packet_Get has taken a
\* received byte and the handler has sent a byte of Packet_Put.
C27_Witness ==
  /\ trace # <<>>
  /\ txWire # <<>>
  /\ RxFIFO.NbBytes > 0
  /\ TxFIFO.NbBytes > 0

\* s is t with some of its elements left out.
RECURSIVE IsSubseq(_, _)
IsSubseq(s, t) ==
  IF s = <<>> THEN TRUE
  ELSE IF t = <<>> THEN FALSE
  ELSE IF Head(s) = Head(t) THEN IsSubseq(Tail(s), Tail(t))
  ELSE IsSubseq(s, Tail(t))

\* The bytes Packet_Get has consumed, then those it will consume next.
Consumed == [i \in 1 .. Len(trace) |-> trace[i].byte] \o Unread(RxFIFO)

\* C29: a receive interrupt on a full RxFIFO drops the byte and leaves the
\* buffer as it was, and the bytes Packet_Get consumes, followed by those
\* still buffered, are the bytes of the wire with some left out, in order.
C29_NoOverwrite ==
  [][/\ IsSubseq(Consumed', rxWire')
     /\ (lastOp' = "UART_ISR" /\ RIE /\ RDRF /\ RxFIFO.NbBytes = FIFO_SIZE) =>
          (RxFIFO' = RxFIFO /\ ~putRet' /\ ~RDRF')
    ]_vars

\* One byte more than RxFIFO holds arrived before Packet_Get ran; the last
\* was dropped and Packet_Get has consumed the others.
C29_Witness ==
  /\ lastOp = "Packet_Get"
  /\ Len(rxWire) = FIFO_SIZE + 1
  /\ ~RDRF
  /\ Len(trace) = FIFO_SIZE
  /\ RxFIFO.NbBytes = 0
  /\ ~putRet
  /\ \A i \in 1 .. FIFO_SIZE : trace[i].byte = rxWire[i]

\* The names lastOp takes after an interrupt handler has run.
Handlers == {"UART_ISR", "PIT_ISR", "RTC_ISR", "FTM0_ISR"}

\* The names lastOp takes after a call of the storage engine.
EngineCalls ==
  {"Flash_AllocateVar", "Flash_Write8", "Flash_Write16", "Flash_Write32",
   "Flash_Write64", "Flash_Erase"}

\* C28: a step of an interrupt handler, its callback included, issues no
\* Flash command and leaves the sector, the mirror and every result of the
\* storage engine as they were; every step that changes any of them is a
\* call of the storage engine by the main loop, which runs to its return.
C28_MainContextOnly ==
  [][/\ lastOp' \in Handlers => UNCHANGED flashVars
     /\ flashVars' # flashVars => lastOp' \in EngineCalls]_vars

\* The FTM handler has put the blue LED out after the PIT and RTC handlers
\* ran, and the sector and the commands of the last Flash_Write8 stand.
C28_Witness ==
  /\ lastOp = "FTM0_ISR"
  /\ "BLUE" \notin leds /\ "GREEN" \in leds /\ "YELLOW" \in leds
  /\ CHIE /\ ~CHF
  /\ launched = <<ERASE_FLASH_SECTOR_COMMAND, PROGRAM_PHRASE_COMMAND>>
  /\ flashArg = <<FLASH_DATA_START, 0>>
  /\ Sector[0] = 0

\* C32: when a program command has been launched, FCCOB4..7 hold mirror
\* bytes 3,2,1,0 and FCCOB8..B hold mirror bytes 7,6,5,4: in each half the
\* most significant byte is in the lowest-numbered register.
C32_PhraseOrder ==
  [][(WriteStep /\ launched' # <<>>) =>
       /\ FCCOB'[4] = CommonCommandObject'.data[3]
       /\ FCCOB'[5] = CommonCommandObject'.data[2]
       /\ FCCOB'[6] = CommonCommandObject'.data[1]
       /\ FCCOB'[7] = CommonCommandObject'.data[0]
       /\ FCCOB'[8] = CommonCommandObject'.data[7]
       /\ FCCOB'[9] = CommonCommandObject'.data[6]
       /\ FCCOB'[10] = CommonCommandObject'.data[5]
       /\ FCCOB'[11] = CommonCommandObject'.data[4]
    ]_vars

\* Flash_Write32 has written 0x00FF00FF to offset 4 after byte 0 was cleared:
\* the registers of both halves hold bytes that differ.
C32_Witness ==
  /\ lastOp = "Flash_Write32"
  /\ flashArg[1] = FLASH_DATA_START + 4
  /\ launched = <<ERASE_FLASH_SECTOR_COMMAND, PROGRAM_PHRASE_COMMAND>>
  /\ FCCOB[7] = 0 /\ FCCOB[6] = 255
  /\ FCCOB[11] = 255 /\ FCCOB[10] = 0 /\ FCCOB[9] = 255 /\ FCCOB[8] = 0

\* C38: End is (Start + NbBytes) mod FIFO_SIZE in both buffers, and the unread
\* bytes of RxFIFO, in the order they were accepted, are the NbBytes cells
\* from Buffer[Start] on, which are the NbBytes cells before End.
C38_IndexRelation ==
  /\ Consistent(RxFIFO)
  /\ Consistent(TxFIFO)
  /\ Len(rxQueue) = RxFIFO.NbBytes
  /\ \A i \in 1 .. RxFIFO.NbBytes :
       /\ rxQueue[i] = RxFIFO.Buffer[(RxFIFO.Start + i - 1) % FIFO_SIZE]
       /\ rxQueue[i] =
            RxFIFO.Buffer[(RxFIFO.End + FIFO_SIZE - RxFIFO.NbBytes + i - 1)
                            % FIFO_SIZE]

\* The unread bytes of RxFIFO run over the end of the array.
C38_Witness ==
  /\ RxFIFO.NbBytes >= 2
  /\ RxFIFO.End < RxFIFO.Start
  /\ RxFIFO.End > 0
  /\ trace # <<>>

\* C39: a call of Flash_AllocateVar leaves the sector, the mirror and the
\* command registers as they were and launches no command; with a size
\* outside {1,2,4} it returns false and leaves the caller's variable as it
\* was; a second call with the same size straight after the first returns
\* what the first returned.
C39_AllocReadOnly ==
  [][lastOp' = "Flash_AllocateVar" =>
       /\ Sector' = Sector
       /\ CommonCommandObject' = CommonCommandObject
       /\ FCCOB' = FCCOB
       /\ launched' = <<>>
       /\ flashArg'[1] \notin {1, 2, 4} =>
            (~flashRet' /\ variable' = flashArg'[2])
       /\ (lastOp = "Flash_AllocateVar" /\ flashArg[1] = flashArg'[1]) =>
            /\ flashRet' = flashRet
            /\ flashRet => variable' = variable
    ]_vars

\* Flash_AllocateVar has been refused a slot of 8 bytes on an erased sector
\* and has left the caller's variable.
C39_Witness ==
  /\ lastOp = "Flash_AllocateVar"
  /\ flashArg = <<8, FLASH_DATA_START + 2>>
  /\ ~flashRet
  /\ variable = FLASH_DATA_START + 2
  /\ Erased

\* C35: whatever the parser held and whatever its position, once Packet_Get
\* has consumed the five bytes of a valid packet in order it has returned
\* true on at least one of them.
C35_BoundedResync ==
  \A i \in 0 .. Len(trace) - 5 :
    PacketAt(i) => \E k \in 1 .. 5 : trace[i + k].ret

\* A valid packet began at position 4 after four bytes of another stream,
\* and Packet_Get returned true on its fifth byte and on no byte before.
C35_Witness ==
  /\ Len(trace) = 9
  /\ trace[5].pos = 4
  /\ PacketAt(4)
  /\ trace[9].ret
  /\ \A k \in 1 .. 8 : ~trace[k].ret

\* C37: a Packet_Put that returns false leaves the transmit buffer exactly
\* as it was before the call.
C37_RejectedLeavesBuffer ==
  [][(lastOp' = "Packet_Put" /\ putCalls' # putCalls /\ ~ppRet') =>
       TxFIFO' = TxFIFO]_vars

\* The number of bytes the UART_OutChar calls of this Packet_Put step have
\* enqueued.
PutEnqueued == IF ppRet' THEN 5 ELSE ppIdx' - 1

\* C36: every byte a UART_OutChar call has enqueued is in time written to
\* the data register by UART_ISR, oldest first; the handler clears TIE only
\* when it has found the transmit buffer empty, and a Packet_Put whose
\* UART_OutChar calls enqueued a byte leaves TIE set.
C36_TransmitProgress ==
  /\ [][/\ (lastOp' = "Packet_Put" /\ putCalls' # putCalls) =>
            /\ Unread(TxFIFO') =
                 Unread(TxFIFO) \o SubSeq(ppBytes', 1, PutEnqueued)
            /\ PutEnqueued >= 1 => TIE'
            /\ txWire' = txWire
        /\ (lastOp' = "UART_ISR" /\ TIE /\ TDRE /\ TxFIFO.NbBytes > 0) =>
            /\ txWire' = Append(txWire, Unread(TxFIFO)[1])
            /\ Unread(TxFIFO') = Tail(Unread(TxFIFO))
            /\ TIE'
        /\ (TIE /\ ~TIE') =>
            (lastOp' = "UART_ISR" /\ TxFIFO.NbBytes = 0 /\ txWire' = txWire)
       ]_vars
  /\ \A n \in 1 .. 5 * MaxPut :
       (Len(txWire) + TxFIFO.NbBytes >= n) ~> (Len(txWire) >= n)

\* Two whole frames have been transmitted and the handler, finding the
\* buffer empty, has disabled the transmit interrupt.
C36_Witness ==
  /\ Len(txWire) = 10
  /\ TxFIFO.NbBytes = 0
  /\ ~TIE
  /\ lastOp = "UART_ISR"
  /\ putCalls = 2

\* C31: LaunchCommand writes the command registers only when the controller
\* has reported that it is not busy; when it signals execute, FCCOB0..3 hold
\* the opcode and the base address and, for a program command, FCCOB4..B
\* hold the phrase; and it returns true only when the controller has
\* completed the command it launched.
C31_Protocol ==
  [][/\ (lpc = "load" \/ FCCOB' # FCCOB) => CCIF
     /\ (CCIF /\ ~CCIF') =>
          LET obj == Head(lcQueue)
          IN  /\ lpc = "execute"
              /\ FCCOB[0] = obj.command
              /\ <<FCCOB[1], FCCOB[2], FCCOB[3]>> = <<8, 0, 0>>
              /\ obj.command = PROGRAM_PHRASE_COMMAND =>
                   \A k \in 0 .. 3 :
                     /\ FCCOB[7 - k] = obj.data[k]
                     /\ FCCOB[11 - k] = obj.data[k + 4]
     /\ (lpc = "wait_done" /\ lpc' # "wait_done") =>
          /\ CCIF
          /\ completed = launched
          /\ completed[Len(completed)] = Head(lcQueue).command
    ]_vars

\* Flash_Write8 has returned true after the controller completed the erase
\* and then the program command.
C31_Witness ==
  /\ lpc = "idle"
  /\ lastOp = "Flash_Write8"
  /\ flashRet
  /\ completed = <<ERASE_FLASH_SECTOR_COMMAND, PROGRAM_PHRASE_COMMAND>>
  /\ Sector[0] = 0 /\ Sector[1] = 0
  /\ CCIF

\* C33: a flash operation leaves a wait loop of LaunchCommand only when the
\* controller has set CCIF, however long that takes, and it returns if the
\* controller sets CCIF whenever it is waited on.
C33_NoTimeout ==
  /\ [][(lpc \in {"wait_ready", "wait_done"} /\ ~CCIF /\ ~CCIF') =>
          (lpc' = lpc /\ lcQueue' = lcQueue)]_vars
  /\ (lpc # "idle") ~> (lpc = "idle")

\* The program command of a write has been launched and the operation is in
\* the wait loop while the controller is busy.
C33_Witness ==
  /\ lpc = "wait_done"
  /\ ~CCIF
  /\ launched = <<ERASE_FLASH_SECTOR_COMMAND, PROGRAM_PHRASE_COMMAND>>
  /\ completed = <<ERASE_FLASH_SECTOR_COMMAND>>

\* The handler the switch of HandlePacket has for each command code.
HandlerFor(Command) ==
  CASE Command = 4 -> "HandleTowerStartup"
    [] Command = 7 -> "HandleFlashProgramByte"
    [] Command = 8 -> "HandleFlashReadByte"
    [] Command = 9 -> "HandleSpecial"
    [] Command = 11 -> "HandleTowerNumber"
    [] Command = 12 -> "HandleTime"
    [] Command = 13 -> "HandleTowerMode"
    [] Command = 85 -> "PrintFlash"
    [] OTHER -> "default"

\* The bytes of the acknowledgement of the packet this HandlePacket step has
\* handled: (success << 7) | low 7 bits, the three parameters as received,
\* and the checksum of the four.
AckFrame ==
  LET c == (IF dsp'.success THEN 128 ELSE 0) + (Packet_Command' % 128)
  IN  <<c, Packet_Parameter1', Packet_Parameter2', Packet_Parameter3',
        calculateChecksum(c, Packet_Parameter1', Packet_Parameter2',
                          Packet_Parameter3')>>

\* The bytes this HandlePacket step has put in the transmit buffer after its
\* handler and PacketSuccess.
Acknowledged(sent) ==
  /\ TxFIFO'.NbBytes = dsp'.afterHandler.NbBytes + Len(sent)
  /\ Unread(TxFIFO') = Unread(dsp'.afterHandler) \o sent

\* C34 as claimed: the handler of a validated packet is chosen by the low 7
\* bits of the command byte; if bit 7 was set, one whole acknowledgement
\* packet is enqueued after the handler, with command (success << 7) | low 7
\* bits and the received parameters; if bit 7 was clear, none is.
C34_AsClaimed ==
  [][dsp'.count # dsp.count =>
       /\ dsp'.handler = HandlerFor(Packet_Command' % 128)
       /\ Acknowledged(IF Packet_Command' >= 128 THEN AckFrame ELSE <<>>)]_vars

\* C34: the handler of a validated packet is chosen by the low 7 bits of the
\* command byte; if bit 7 was set, Packet_Put is called once after the
\* handler, with command (success << 7) | low 7 bits and the received
\* parameters, and its result is ignored: the packet is enqueued whole when
\* the transmit buffer has five free cells, and otherwise only its first
\* bytes, as many as the buffer has free cells; if bit 7 was clear, nothing
\* is enqueued after the handler.
C34_AckFlag ==
  [][dsp'.count # dsp.count =>
       /\ dsp'.handler = HandlerFor(Packet_Command' % 128)
       /\ dsp'.ack = (Packet_Command' >= 128)
       /\ Acknowledged(IF Packet_Command' >= 128
                       THEN SubSeq(AckFrame, 1,
                                   IF Free(dsp'.afterHandler) < 5
                                   THEN Free(dsp'.afterHandler) ELSE 5)
                       ELSE <<>>)]_vars

\* HandlePacket has handled FLASH_PROGRAM_BYTE with the flag set and an
\* offset out of range: the handler failed and the whole acknowledgement,
\* command 0x07 with bit 7 clear, is in the transmit buffer.
C34_Witness ==
  /\ lastOp = "HandlePacket"
  /\ Packet_Command = 135
  /\ Packet_Parameter1 = 9
  /\ dsp.handler = "HandleFlashProgramByte"
  /\ dsp.ack
  /\ ~dsp.success
  /\ Unread(TxFIFO) = <<7, 9, 0, 0, 14>>

\* C40: when HandlePacket has handled FLASH_PROGRAM_BYTE with parameter 1
\* equal to 8, whatever the sector held, the handler has reported success and
\* the sector holds 0x26, 0x81 (tower number 0x8126) at offsets 0 and 1,
\* 0x01, 0x00 (tower mode 0x0001) at offsets 2 and 3 and 0xFF in its other
\* bytes.
C40_EraseAndReinitialise ==
  [][(dsp'.count # dsp.count /\ Packet_Command' % 128 = 7
      /\ Packet_Parameter1' = 8) =>
       /\ dsp'.success
       /\ Sector' = [i \in 0 .. FLASH_SIZE - 1 |->
                       CASE i = 0 -> 38
                         [] i = 1 -> 129
                         [] i = 2 -> 1
                         [] i = 3 -> 0
                         [] OTHER -> 255]]_vars

\* HandlePacket has handled FLASH_PROGRAM_BYTE with parameter 1 equal to 8 on
\* a sector that held 0xAA at offset 5: the byte is erased and the tower
\* number and mode are back at their defaults.
C40_Witness ==
  /\ lastOp = "HandlePacket"
  /\ Packet_Command % 128 = 7
  /\ Packet_Parameter1 = 8
  /\ dsp.handler = "HandleFlashProgramByte"
  /\ dsp.success
  /\ dsp.sectorBefore[5] = 170
  /\ Sector[5] = 255
  /\ Sector[0] = 38
  /\ Sector[2] = 1

====
